---- MODULE Spec2Model ----
(***************************************************************************)
(* A model of the ms-runtime stack machine: the module loader              *)
(* (lib.rs, module.rs), the interpreter (virtual_machine.rs) and the       *)
(* bytecode codec (instruction.rs, bytecode.rs, byte_reader.rs,            *)
(* byte_writer.rs).                                                        *)
(*                                                                         *)
(* Strings are sequences of UTF-8 bytes.  A Value and an Instruction are   *)
(* records of one fixed shape each; the fields a variant does not use hold *)
(* a default.  A Float is modelled on the integral binary32 values, which  *)
(* binary32 adds, subtracts, multiplies and compares exactly in the range  *)
(* the model uses; its field n is that integral value.                     *)
(***************************************************************************)
EXTENDS Integers, Sequences, FiniteSets, TLC

VARIABLES
    program,        \* the top-level Code handed to load_modules
    phase,          \* "created" | "loaded" | "loadError" | "loadPanic" |
                    \* "running" | "done" | "panic" | "hung"
    modules,        \* VirtualMachine.modules: name -> Module
    dymodules,      \* VirtualMachine.dymodules: name -> DyModule
    stack,          \* VirtualMachine.stack
    local_vars,     \* VirtualMachine.local_vars
    call_break,     \* VirtualMachine.call_break
    call_continue,  \* VirtualMachine.call_continue
    call_return,    \* VirtualMachine.call_return
    heap,           \* the Arc<Mutex<Object>> cells, by handle 1..Len(heap)
    frames,         \* the active invocations of execute, innermost last
    trace,          \* history: the instructions executed since the host call
    entry,          \* history: the module, name and args of the host's call
    tree,           \* codec: the Code given to code_to_bytes
    bytes,          \* codec: the encoded bytes
    decoded,        \* codec: the result of from_bytecode
    cphase,         \* codec: "idle" | "tree" | "encoded" | "decoded" |
                    \* "value" | "written" | "read" | "stream" | "streamDecoded"
    written,        \* byte writer: the value given to write_u32, write_i32 or
                    \* write_string
    readback,       \* byte reader: what the last read returned, and the
                    \* position it left
    request,        \* byte reader: the read last asked of a reader
    parser_source,  \* Parser.source, the text given to assemble
    parser_position, \* Parser.position, counted in characters
    tokens,         \* history: what the calls of next_token returned
    parsed,         \* the result of Parser::parse
    assembled,      \* the result of assemble
    aphase          \* assembler: "idle" | "new" | "lexing" | "end" |
                    \* "parsed" | "assembled"

vmvars == <<stack, local_vars, call_break, call_continue, call_return, heap, frames,
            trace, entry>>
loadvars == <<program, modules, dymodules>>
codecvars == <<tree, bytes, decoded, cphase, written, readback, request>>
asmvars == <<parser_source, parser_position, tokens, parsed, assembled, aphase>>
vars == <<program, phase, modules, dymodules, stack, local_vars, call_break,
          call_continue, call_return, heap, frames, trace, entry, tree, bytes, decoded,
          cphase, written, readback, request, parser_source, parser_position, tokens, parsed, assembled, aphase>>

(***************************************************************************)
(* Bounds of the model.                                                    *)
(***************************************************************************)
\* the longest run of executed instructions after one host call
MaxSteps == 100
\* host-supplied Integer and Float arguments range over -1 .. MaxArg
MaxArg == 2

(***************************************************************************)
(* The host version (CARGO_PKG_VERSION_*, read by lib.rs and asm.rs).      *)
(***************************************************************************)
HostMajor == 0
HostMinor == 1
HostPatch == 0

(***************************************************************************)
(* Maps (HashMap) as functions.                                            *)
(***************************************************************************)
EmptyMap == [k \in {} |-> k]
MapPut(m, k, v) == [z \in (DOMAIN m) \cup {k} |-> IF z = k THEN v ELSE m[z]]

Last(s) == s[Len(s)]
Front(s) == SubSeq(s, 1, Len(s) - 1)

(***************************************************************************)
(* Value (value.rs).                                                       *)
(***************************************************************************)
Null == [kind |-> "Null", b |-> FALSE, n |-> 0, s |-> <<>>]
Boolean(x) == [kind |-> "Boolean", b |-> x, n |-> 0, s |-> <<>>]
Integer(x) == [kind |-> "Integer", b |-> FALSE, n |-> x, s |-> <<>>]
Float(x) == [kind |-> "Float", b |-> FALSE, n |-> x, s |-> <<>>]
String(x) == [kind |-> "String", b |-> FALSE, n |-> 0, s |-> x]
Object(h) == [kind |-> "Object", b |-> FALSE, n |-> h, s |-> <<>>]
\* the outcome of an operation that panics instead of producing a Value
Invalid == [kind |-> "Invalid", b |-> FALSE, n |-> 0, s |-> <<>>]

\* Object::Values(fields)
Values(fields) == [kind |-> "Values", fields |-> fields]
\* Object::Native(..): a cell without fields
Native == [kind |-> "Native", fields |-> <<>>]

(***************************************************************************)
(* Instruction (instruction.rs, enum Instruction).                         *)
(***************************************************************************)
Ins(op, name, name2, alias, n, n2, n3, b, code, code2) ==
    [op |-> op, name |-> name, name2 |-> name2, alias |-> alias, n |-> n,
     n2 |-> n2, n3 |-> n3, b |-> b, code |-> code, code2 |-> code2]
Plain(op) == Ins(op, <<>>, <<>>, FALSE, 0, 0, 0, FALSE, <<>>, <<>>)
WithN(op, n) == Ins(op, <<>>, <<>>, FALSE, n, 0, 0, FALSE, <<>>, <<>>)

None == Plain("None")
Version(major, minor, patch) ==
    Ins("Version", <<>>, <<>>, FALSE, major, minor, patch, FALSE, <<>>, <<>>)
Dump == Plain("Dump")
Hi == Plain("Hi")
Fn(name, code) == Ins("Fn", name, <<>>, FALSE, 0, 0, 0, FALSE, code, <<>>)
Call(module, function, param_count) ==
    Ins("Call", module, function, FALSE, param_count, 0, 0, FALSE, <<>>, <<>>)
PushConstString(value) ==
    Ins("PushConstString", value, <<>>, FALSE, 0, 0, 0, FALSE, <<>>, <<>>)
PushConstInteger(value) == WithN("PushConstInteger", value)
PushConstFloat(value) == WithN("PushConstFloat", value)
PushConstBoolean(value) ==
    Ins("PushConstBoolean", <<>>, <<>>, FALSE, 0, 0, 0, value, <<>>, <<>>)
GetLocal(index) == WithN("GetLocal", index)
SetLocal(index) == WithN("SetLocal", index)
ReserveLocal(size) == WithN("ReserveLocal", size)
Allocate(fields) == WithN("Allocate", fields)
GetField(index) == WithN("GetField", index)
SetField(index) == WithN("SetField", index)
Pop == Plain("Pop")
Dup == Plain("Dup")
Add == Plain("Add")
Sub == Plain("Sub")
Mul == Plain("Mul")
Div == Plain("Div")
Inc == Plain("Inc")
Dec == Plain("Dec")
Eq == Plain("Eq")
Ne == Plain("Ne")
Lt == Plain("Lt")
Le == Plain("Le")
Gt == Plain("Gt")
Ge == Plain("Ge")
Module(name, code) == Ins("Module", name, <<>>, FALSE, 0, 0, 0, FALSE, code, <<>>)
LoadModule(name, code) ==
    Ins("LoadModule", name, <<>>, FALSE, 0, 0, 0, FALSE, code, <<>>)
\* alias: None
GetFunction(name) == Ins("GetFunction", name, <<>>, FALSE, 0, 0, 0, FALSE, <<>>, <<>>)
\* alias: Some(alias)
GetFunctionAs(name, alias) ==
    Ins("GetFunction", name, alias, TRUE, 0, 0, 0, FALSE, <<>>, <<>>)
Return == Plain("Return")
Then(then_block, else_block) ==
    Ins("Then", <<>>, <<>>, FALSE, 0, 0, 0, FALSE, then_block, else_block)
Loop(block) == Ins("Loop", <<>>, <<>>, FALSE, 0, 0, 0, FALSE, block, <<>>)
Break == Plain("Break")
Continue == Plain("Continue")

(***************************************************************************)
(* The host: the shared libraries it can open and the symbols they export. *)
(* A symbol's native function is modelled by its behaviour: "len" returns  *)
(* Some(Integer(number of arguments)), "unit" returns None.                *)
(***************************************************************************)
HostLibs ==
    MapPut(EmptyMap, <<108, 105, 98>>,                      \* "lib"
           MapPut(MapPut(EmptyMap, <<108, 101, 110>>, "len"),      \* "len"
                  <<117, 110, 105, 116>>, "unit"))                 \* "unit"

\* fn(Vec<Value>) -> Option<Value>, as a sequence of zero or one Value
NativeResult(behaviour, args) ==
    IF behaviour = "len" THEN <<Integer(Len(args))>> ELSE <<>>

(***************************************************************************)
(* Module loader (lib.rs load_modules, module.rs).                         *)
(***************************************************************************)
\* a comparison that looks at major and minor only
VersionMatches_MajorMinor(ins) ==
    /\ ins.op = "Version"
    /\ ~(ins.n # HostMajor \/ ins.n2 # HostMinor)

\* the version comparison of load_modules
VersionMatches(ins) ==
    /\ ins.op = "Version"
    /\ ~(ins.n # HostMajor \/ ins.n2 # HostMinor \/ ins.n3 # HostPatch)

\* Module::add_function: HashMap insert, a later Fn of the same name wins
add_function(functions, name, code) == MapPut(functions, name, code)

\* the loop over a module body from instruction i on: only Fn is accepted,
\* anything else panics; the functions before it have been added, a later
\* Fn of a name replacing an earlier one (add_function)
ModuleFunctions(code, i, functions) ==
    LET others == {j \in i..Len(code) : code[j].op # "Fn"}
        stop == IF others = {} THEN Len(code) + 1
                ELSE CHOOSE j \in others : \A k \in others : j <= k
        added == i..(stop - 1)
        names == {code[j].name : j \in added}
        last(name) == CHOOSE j \in added :
                          /\ code[j].name = name
                          /\ \A k \in added : code[k].name = name => k <= j
    IN  [status |-> IF others = {} THEN "Ok" ELSE "Panic",
         functions |-> [name \in (DOMAIN functions) \cup names |->
                           IF name \in names
                           THEN add_function(functions, name, code[last(name)].code)[name]
                           ELSE functions[name]]]

\* Module::try_from(Instruction::Module { name, code })
ModuleTryFrom(ins) ==
    LET r == ModuleFunctions(ins.code, 1, EmptyMap)
    IN  [status |-> r.status,
         module |-> [name |-> ins.name, functions |-> r.functions]]

\* a loop over a LoadModule body that skips what is not a GetFunction
RECURSIVE DyModuleFns_Lenient(_, _, _, _)
DyModuleFns_Lenient(code, i, lib, fns) ==
    IF i > Len(code) THEN [status |-> "Ok", fns |-> fns]
    ELSE IF code[i].op # "GetFunction" THEN DyModuleFns_Lenient(code, i + 1, lib, fns)
    ELSE IF code[i].name \notin DOMAIN lib THEN [status |-> "Err", fns |-> fns]
    ELSE DyModuleFns_Lenient(code, i + 1, lib,
                             MapPut(fns,
                                    IF code[i].alias THEN code[i].name2 ELSE code[i].name,
                                    lib[code[i].name]))

\* the loop over a LoadModule body: each GetFunction resolves a symbol of
\* the library and is inserted under its alias, else under its name
RECURSIVE DyModuleFns(_, _, _, _)
DyModuleFns(code, i, lib, fns) ==
    IF i > Len(code) THEN [status |-> "Ok", fns |-> fns]
    ELSE IF code[i].op # "GetFunction" THEN [status |-> "Err", fns |-> fns]
    ELSE IF code[i].name \notin DOMAIN lib THEN [status |-> "Err", fns |-> fns]
    ELSE DyModuleFns(code, i + 1, lib,
                     MapPut(fns,
                            IF code[i].alias THEN code[i].name2 ELSE code[i].name,
                            lib[code[i].name]))

LoadResult(status, mods, dys) ==
    [status |-> status,
     modules |-> IF status = "Ok" THEN mods ELSE <<>>,
     dy_modules |-> IF status = "Ok" THEN dys ELSE <<>>]

\* the loop of load_modules over the instructions after the version
RECURSIVE LoadLoop(_, _, _, _)
LoadLoop(code, i, mods, dys) ==
    IF i > Len(code) THEN LoadResult("Ok", mods, dys)
    ELSE IF code[i].op = "Module"
    THEN LET r == ModuleTryFrom(code[i])
         IN  IF r.status = "Ok"
             THEN LoadLoop(code, i + 1, Append(mods, r.module), dys)
             ELSE LoadResult(r.status, mods, dys)
    ELSE IF code[i].op = "LoadModule"
    THEN IF code[i].name \notin DOMAIN HostLibs
         THEN LoadResult("Err", mods, dys)
         ELSE LET r == DyModuleFns(code[i].code, 1, HostLibs[code[i].name], EmptyMap)
              IN  IF r.status = "Ok"
                  THEN LoadLoop(code, i + 1, mods,
                                Append(dys, [name |-> code[i].name, fns |-> r.fns]))
                  ELSE LoadResult("Err", mods, dys)
    ELSE LoadResult("Err", mods, dys)

\* load_modules(code): status "Ok" with the modules, "Err", or "Panic"
load_modules(code) ==
    IF Len(code) = 0 THEN LoadResult("Err", <<>>, <<>>)
    ELSE IF ~VersionMatches(code[1]) THEN LoadResult("Err", <<>>, <<>>)
    ELSE LoadLoop(code, 2, <<>>, <<>>)

\* VirtualMachine::add_module / add_dynamic_module for each loaded module
RECURSIVE add_modules(_, _, _)
add_modules(map, mods, i) ==
    IF i > Len(mods) THEN map
    ELSE add_modules(MapPut(map, mods[i].name, mods[i]), mods, i + 1)

(***************************************************************************)
(* Arithmetic and comparison (virtual_machine.rs execute).  In every       *)
(* operator a is the value popped first (the top of the stack) and b the   *)
(* value popped second.  The result is the Value pushed, or Invalid when   *)
(* the handler panics.  The programs and arguments of the model keep every *)
(* Integer result far inside i32, where the builds with and without        *)
(* overflow checks agree.                                                  *)
(***************************************************************************)
Abs(x) == IF x < 0 THEN -x ELSE x
\* Rust's integer division truncates toward zero
TruncDiv(x, y) ==
    IF (x < 0) = (y < 0) THEN Abs(x) \div Abs(y) ELSE -(Abs(x) \div Abs(y))

SameKind(a, b, kind) == a.kind = kind /\ b.kind = kind

\* an addition that keeps its first operand
AddValues_First(a, b) == IF a.kind = b.kind THEN a ELSE Invalid

AddValues(a, b) ==
    IF SameKind(a, b, "Integer") THEN Integer(a.n + b.n)
    ELSE IF SameKind(a, b, "Float") THEN Float(a.n + b.n)
    ELSE IF SameKind(a, b, "String") THEN String(a.s \o b.s)
    ELSE Invalid

\* a subtraction in the order a - b
SubValues_Swapped(a, b) ==
    IF SameKind(a, b, "Integer") THEN Integer(a.n - b.n)
    ELSE IF SameKind(a, b, "Float") THEN Float(a.n - b.n)
    ELSE Invalid

SubValues(a, b) ==
    IF SameKind(a, b, "Integer") THEN Integer(b.n - a.n)
    ELSE IF SameKind(a, b, "Float") THEN Float(b.n - a.n)
    ELSE Invalid

MulValues(a, b) ==
    IF SameKind(a, b, "Integer") THEN Integer(a.n * b.n)
    ELSE IF SameKind(a, b, "Float") THEN Float(a.n * b.n)
    ELSE Invalid

\* a division in the order b / a
DivValues_Swapped(a, b) ==
    IF SameKind(a, b, "Integer")
    THEN IF a.n = 0 THEN Invalid ELSE Integer(TruncDiv(b.n, a.n))
    ELSE IF SameKind(a, b, "Float") /\ a.n # 0 THEN Float(TruncDiv(b.n, a.n))
    ELSE Invalid

\* Integer: a / b panics when b = 0.  Float: the quotient is in the model's
\* Float domain only when it is integral (DivDefined).
DivValues(a, b) ==
    IF SameKind(a, b, "Integer")
    THEN IF b.n = 0 THEN Invalid ELSE Integer(TruncDiv(a.n, b.n))
    ELSE IF SameKind(a, b, "Float") /\ b.n # 0 THEN Float(TruncDiv(a.n, b.n))
    ELSE Invalid
DivDefined(a, b) ==
    SameKind(a, b, "Float") => (b.n # 0 /\ Abs(a.n) % Abs(b.n) = 0)

EqValues(a, b) ==
    IF SameKind(a, b, "Integer") \/ SameKind(a, b, "Float") THEN Boolean(a.n = b.n)
    ELSE IF SameKind(a, b, "String") THEN Boolean(a.s = b.s)
    ELSE IF SameKind(a, b, "Boolean") THEN Boolean(a.b = b.b)
    ELSE Invalid

NeValues(a, b) ==
    IF SameKind(a, b, "Integer") \/ SameKind(a, b, "Float") THEN Boolean(a.n # b.n)
    ELSE IF SameKind(a, b, "String") THEN Boolean(a.s # b.s)
    ELSE IF SameKind(a, b, "Boolean") THEN Boolean(a.b # b.b)
    ELSE Invalid

\* operands that are numbers, of the same type or not
Numeric_Mixed(a, b) == {a.kind, b.kind} \subseteq {"Integer", "Float"}

Numeric(a, b) == SameKind(a, b, "Integer") \/ SameKind(a, b, "Float")

LtValues(a, b) == IF Numeric(a, b) THEN Boolean(a.n < b.n) ELSE Invalid
LeValues(a, b) == IF Numeric(a, b) THEN Boolean(a.n <= b.n) ELSE Invalid
GtValues(a, b) == IF Numeric(a, b) THEN Boolean(a.n > b.n) ELSE Invalid
GeValues(a, b) == IF Numeric(a, b) THEN Boolean(a.n >= b.n) ELSE Invalid

BinaryOps == {"Add", "Sub", "Mul", "Div", "Eq", "Ne", "Lt", "Le", "Gt", "Ge"}

BinaryResult(op, a, b) ==
    CASE op = "Add" -> AddValues(a, b)
      [] op = "Sub" -> SubValues(a, b)
      [] op = "Mul" -> MulValues(a, b)
      [] op = "Div" -> DivValues(a, b)
      [] op = "Eq" -> EqValues(a, b)
      [] op = "Ne" -> NeValues(a, b)
      [] op = "Lt" -> LtValues(a, b)
      [] op = "Le" -> LeValues(a, b)
      [] op = "Gt" -> GtValues(a, b)
      [] op = "Ge" -> GeValues(a, b)

IncValue(a) ==
    IF a.kind = "Integer" THEN Integer(a.n + 1)
    ELSE IF a.kind = "Float" THEN Float(a.n + 1)
    ELSE Invalid

DecValue(a) ==
    IF a.kind = "Integer" THEN Integer(a.n - 1)
    ELSE IF a.kind = "Float" THEN Float(a.n - 1)
    ELSE Invalid

\* the Value a PushConst* instruction pushes
ConstValue(ins) ==
    CASE ins.op = "PushConstString" -> String(ins.name)
      [] ins.op = "PushConstInteger" -> Integer(ins.n)
      [] ins.op = "PushConstFloat" -> Float(ins.n)
      [] ins.op = "PushConstBoolean" -> Boolean(ins.b)

(***************************************************************************)
(* Interpreter (virtual_machine.rs).  frames is the stack of active        *)
(* execute(code) invocations: a frame holds the code, the index pc of the  *)
(* instruction the for loop runs next (pc > Len(code): the invocation      *)
(* returns) and who invoked it: "call" (VirtualMachine::call), "then" (the *)
(* Then handler), "loop" (the Loop handler) or "execute" (the host).       *)
(***************************************************************************)
Top == frames[Len(frames)]
Cur == Top.code[Top.pc]
CanStep ==
    /\ phase = "running"
    /\ frames # <<>>
    /\ Top.pc <= Len(Top.code)
    /\ Len(trace) < MaxSteps
Exiting == phase = "running" /\ frames # <<>> /\ Top.pc > Len(Top.code)

\* history: the instruction, the call depth, and the locals frames and the
\* operand stack it starts with
Logged ==
    Append(trace, [ins |-> Cur, depth |-> Len(local_vars), locals |-> local_vars,
                   stack |-> stack])
\* the for loop goes on to the next instruction
Advanced(fs) == [fs EXCEPT ![Len(fs)].pc = fs[Len(fs)].pc + 1]
\* `return` out of execute
Returned(fs) == [fs EXCEPT ![Len(fs)].pc = Len(fs[Len(fs)].code) + 1]
\* a nested execute(code) starts at its first instruction
Entered(fs, code, kind) == Append(fs, [code |-> code, pc |-> 1, kind |-> kind])

\* execute() clears the three flags on entry
FlagsCleared ==
    /\ call_break' = FALSE
    /\ call_continue' = FALSE
    /\ call_return' = FALSE
FlagsKept == UNCHANGED <<call_break, call_continue, call_return>>
AnyFlag == call_return \/ call_break \/ call_continue

NotVM ==
    UNCHANGED loadvars /\ UNCHANGED codecvars /\ UNCHANGED asmvars /\ UNCHANGED entry

\* a handler panics: the invocation is aborted, stk is the stack it leaves
Panics(stk) ==
    /\ phase' = "panic"
    /\ stack' = stk
    /\ trace' = Logged
    /\ UNCHANGED <<local_vars, heap, frames>>
    /\ FlagsKept

\* a handler completes and the for loop advances; only the stack changed
Pushes(stk) ==
    /\ stack' = stk
    /\ frames' = Advanced(frames)
    /\ trace' = Logged
    /\ UNCHANGED <<phase, local_vars, heap>>
    /\ FlagsKept

\* a resolution that looks among the dynamic modules first
CallTarget_DynamicFirst(module, name) ==
    IF module \in DOMAIN dymodules
    THEN IF name \in DOMAIN dymodules[module].fns THEN "native" ELSE "panic"
    ELSE IF module \notin DOMAIN modules THEN "panic"
    ELSE IF name \in DOMAIN modules[module].functions THEN "code" ELSE "panic"

\* the function a call resolves to: static modules first, then dynamic
CallTarget(module, name) ==
    IF module \in DOMAIN modules
    THEN IF name \in DOMAIN modules[module].functions THEN "code" ELSE "panic"
    ELSE IF module \notin DOMAIN dymodules THEN "panic"
    ELSE IF name \in DOMAIN dymodules[module].fns THEN "native" ELSE "panic"

\* a query that also looks into a dynamic module behind a static module of
\* the same name
has_function_EitherModule(module, name) ==
    IF module \in DOMAIN modules /\ name \in DOMAIN modules[module].functions
    THEN TRUE
    ELSE IF module \in DOMAIN dymodules
    THEN name \in DOMAIN dymodules[module].fns
    ELSE FALSE

\* VirtualMachine::has_function
has_function(module, name) ==
    IF module \in DOMAIN modules
    THEN name \in DOMAIN modules[module].functions
    ELSE IF module \in DOMAIN dymodules
    THEN name \in DOMAIN dymodules[module].fns
    ELSE FALSE

\* the arguments in pop order
SplitOffArgs_PopOrder(stk, param_count) ==
    [i \in 1..param_count |-> stk[Len(stk) - i + 1]]

\* stack.split_off(stack.len() - param_count): the arguments, in push order
SplitOffArgs(stk, param_count) ==
    SubSeq(stk, Len(stk) - param_count + 1, Len(stk))
SplitOffRest(stk, param_count) == SubSeq(stk, 1, Len(stk) - param_count)

\* the handles among a vector of values
Handles(vals) == {vals[i].n : i \in {j \in 1..Len(vals) : vals[j].kind = "Object"}}
Children(h) == Handles(heap[h].fields)
RECURSIVE ReachSet(_, _)
ReachSet(S, k) ==
    IF k = 0 THEN S ELSE ReachSet(S \cup UNION {Children(h) : h \in S}, k - 1)
Roots == Handles(stack) \cup UNION {Handles(local_vars[i]) : i \in 1..Len(local_vars)}
\* Debug for Value::Object holds the cell's lock while it formats the
\* fields: printing an object that reaches itself locks its Mutex again
DumpRelocks ==
    \E h \in ReachSet(Roots, Len(heap)) : h \in ReachSet(Children(h), Len(heap))

Nulls(n) == IF n = 0 THEN <<>> ELSE [i \in 1..n |-> Null]
\* a resize that never truncates
Resized_GrowsOnly(v, size) ==
    IF size <= Len(v) THEN v ELSE [i \in 1..size |-> IF i <= Len(v) THEN v[i] ELSE Null]
\* Vec::resize(size, Value::Null)
Resized(v, size) ==
    IF size = 0 THEN <<>> ELSE [i \in 1..size |-> IF i <= Len(v) THEN v[i] ELSE Null]

(***************************************************************************)
(* The instruction handlers of execute.                                    *)
(***************************************************************************)
ExecNone ==
    /\ CanStep /\ Cur.op \in {"None", "Version"}
    /\ Pushes(stack)
    /\ NotVM

\* a second lock of a std Mutex by the thread that holds it either never
\* returns or panics
ExecDump ==
    /\ CanStep /\ Cur.op = "Dump"
    /\ \E outcome \in {"hung", "panic"} :
         IF DumpRelocks
         THEN /\ phase' = outcome
              /\ trace' = Logged
              /\ UNCHANGED <<stack, local_vars, heap, frames>>
              /\ FlagsKept
         ELSE Pushes(stack)
    /\ NotVM

ExecHi ==
    /\ CanStep /\ Cur.op = "Hi"
    /\ Pushes(stack)
    /\ NotVM

\* Fn, Module, LoadModule, GetFunction are not allowed in executed code
ExecDeclaration ==
    /\ CanStep /\ Cur.op \in {"Fn", "Module", "LoadModule", "GetFunction"}
    /\ Panics(stack)
    /\ NotVM

ExecCall ==
    /\ CanStep /\ Cur.op = "Call"
    /\ IF Cur.n > Len(stack) THEN Panics(stack)
       ELSE LET args == SplitOffArgs(stack, Cur.n)
                rest == SplitOffRest(stack, Cur.n)
                target == CallTarget(Cur.name, Cur.name2)
            IN  IF target = "panic" THEN Panics(rest)
                ELSE IF target = "native"
                THEN /\ stack' = rest \o NativeResult(dymodules[Cur.name].fns[Cur.name2], args)
                     /\ frames' = Advanced(frames)
                     /\ FlagsCleared
                     /\ trace' = Logged
                     /\ UNCHANGED <<phase, local_vars, heap>>
                ELSE /\ stack' = rest
                     /\ local_vars' = Append(local_vars, args)
                     /\ frames' = Entered(frames, modules[Cur.name].functions[Cur.name2], "call")
                     /\ FlagsCleared
                     /\ trace' = Logged
                     /\ UNCHANGED <<phase, heap>>
    /\ NotVM

ExecPushConst ==
    /\ CanStep
    /\ Cur.op \in {"PushConstString", "PushConstInteger", "PushConstFloat", "PushConstBoolean"}
    /\ Pushes(Append(stack, ConstValue(Cur)))
    /\ NotVM

ExecGetLocal ==
    /\ CanStep /\ Cur.op = "GetLocal"
    /\ IF local_vars = <<>> THEN Panics(stack)
       ELSE IF Cur.n >= Len(Last(local_vars)) THEN Panics(stack)
       ELSE Pushes(Append(stack, Last(local_vars)[Cur.n + 1]))
    /\ NotVM

\* a SetLocal that extends the frame up to the slot it writes
ExecSetLocal_Grows ==
    /\ CanStep /\ Cur.op = "SetLocal"
    /\ IF stack = <<>> THEN Panics(stack)
       ELSE IF local_vars = <<>> THEN Panics(Front(stack))
       ELSE /\ stack' = Front(stack)
            /\ local_vars' =
                   [local_vars EXCEPT ![Len(local_vars)] =
                       [Resized(@, IF Cur.n < Len(@) THEN Len(@) ELSE Cur.n + 1)
                           EXCEPT ![Cur.n + 1] = Last(stack)]]
            /\ frames' = Advanced(frames)
            /\ trace' = Logged
            /\ UNCHANGED <<phase, heap>>
            /\ FlagsKept
    /\ NotVM

ExecSetLocal ==
    /\ CanStep /\ Cur.op = "SetLocal"
    /\ IF stack = <<>> THEN Panics(stack)
       ELSE IF local_vars = <<>> THEN Panics(Front(stack))
       ELSE IF Cur.n >= Len(Last(local_vars)) THEN Panics(Front(stack))
       ELSE /\ stack' = Front(stack)
            /\ local_vars' = [local_vars EXCEPT ![Len(local_vars)][Cur.n + 1] = Last(stack)]
            /\ frames' = Advanced(frames)
            /\ trace' = Logged
            /\ UNCHANGED <<phase, heap>>
            /\ FlagsKept
    /\ NotVM

ExecReserveLocal ==
    /\ CanStep /\ Cur.op = "ReserveLocal"
    /\ IF local_vars = <<>> THEN Panics(stack)
       ELSE /\ local_vars' = [local_vars EXCEPT ![Len(local_vars)] = Resized(@, Cur.n)]
            /\ frames' = Advanced(frames)
            /\ trace' = Logged
            /\ UNCHANGED <<phase, stack, heap>>
            /\ FlagsKept
    /\ NotVM

ExecAllocate ==
    /\ CanStep /\ Cur.op = "Allocate"
    /\ heap' = Append(heap, Values(Nulls(Cur.n)))
    /\ stack' = Append(stack, Object(Len(heap) + 1))
    /\ frames' = Advanced(frames)
    /\ trace' = Logged
    /\ UNCHANGED <<phase, local_vars>>
    /\ FlagsKept
    /\ NotVM

ExecGetField ==
    /\ CanStep /\ Cur.op = "GetField"
    /\ IF stack = <<>> THEN Panics(stack)
       ELSE IF Last(stack).kind # "Object" THEN Panics(Front(stack))
       ELSE IF heap[Last(stack).n].kind # "Values" THEN Panics(Front(stack))
       ELSE IF Cur.n >= Len(heap[Last(stack).n].fields) THEN Panics(Front(stack))
       ELSE Pushes(Append(Front(stack), heap[Last(stack).n].fields[Cur.n + 1]))
    /\ NotVM

\* a SetField that pops the object handle together with the value
ExecSetField_PopsObject ==
    /\ CanStep /\ Cur.op = "SetField"
    /\ IF stack = <<>> THEN Panics(stack)
       ELSE IF Len(stack) = 1 THEN Panics(Front(stack))
       ELSE LET value == Last(stack)
                object == stack[Len(stack) - 1]
            IN  IF object.kind # "Object" THEN Panics(Front(stack))
                ELSE IF heap[object.n].kind # "Values" THEN Panics(Front(stack))
                ELSE IF Cur.n >= Len(heap[object.n].fields) THEN Panics(Front(stack))
                ELSE /\ heap' = [heap EXCEPT ![object.n].fields[Cur.n + 1] = value]
                     /\ stack' = Front(Front(stack))
                     /\ frames' = Advanced(frames)
                     /\ trace' = Logged
                     /\ UNCHANGED <<phase, local_vars>>
                     /\ FlagsKept
    /\ NotVM

ExecSetField ==
    /\ CanStep /\ Cur.op = "SetField"
    /\ IF stack = <<>> THEN Panics(stack)
       ELSE IF Len(stack) = 1 THEN Panics(Front(stack))
       ELSE LET value == Last(stack)
                object == stack[Len(stack) - 1]
            IN  IF object.kind # "Object" THEN Panics(Front(stack))
                ELSE IF heap[object.n].kind # "Values" THEN Panics(Front(stack))
                ELSE IF Cur.n >= Len(heap[object.n].fields) THEN Panics(Front(stack))
                ELSE /\ heap' = [heap EXCEPT ![object.n].fields[Cur.n + 1] = value]
                     /\ stack' = Front(stack)
                     /\ frames' = Advanced(frames)
                     /\ trace' = Logged
                     /\ UNCHANGED <<phase, local_vars>>
                     /\ FlagsKept
    /\ NotVM

\* self.stack.pop() with the result dropped
ExecPop ==
    /\ CanStep /\ Cur.op = "Pop"
    /\ Pushes(IF stack = <<>> THEN stack ELSE Front(stack))
    /\ NotVM

\* a Dup that pushes a handle to a copy of the object
ExecDup_Copies ==
    /\ CanStep /\ Cur.op = "Dup"
    /\ IF stack = <<>> THEN Panics(stack)
       ELSE IF Last(stack).kind # "Object" THEN Pushes(Append(stack, Last(stack)))
       ELSE /\ heap' = Append(heap, heap[Last(stack).n])
            /\ stack' = Append(stack, Object(Len(heap) + 1))
            /\ frames' = Advanced(frames)
            /\ trace' = Logged
            /\ UNCHANGED <<phase, local_vars>>
            /\ FlagsKept
    /\ NotVM

ExecDup ==
    /\ CanStep /\ Cur.op = "Dup"
    /\ IF stack = <<>> THEN Panics(stack) ELSE Pushes(Append(stack, Last(stack)))
    /\ NotVM

\* Add, Sub, Mul, Div, Eq, Ne, Lt, Le, Gt, Ge: pop a, pop b, push the result
ExecBinary ==
    /\ CanStep /\ Cur.op \in BinaryOps
    /\ IF stack = <<>> THEN Panics(stack)
       ELSE IF Len(stack) = 1 THEN Panics(Front(stack))
       ELSE LET a == Last(stack)
                b == stack[Len(stack) - 1]
                rest == SubSeq(stack, 1, Len(stack) - 2)
                r == BinaryResult(Cur.op, a, b)
            IN  /\ Cur.op = "Div" => DivDefined(a, b)
                /\ IF r = Invalid THEN Panics(rest) ELSE Pushes(Append(rest, r))
    /\ NotVM

\* Inc, Dec: pop a, push a + 1 or a - 1
ExecUnary ==
    /\ CanStep /\ Cur.op \in {"Inc", "Dec"}
    /\ IF stack = <<>> THEN Panics(stack)
       ELSE LET a == Last(stack)
                r == IF Cur.op = "Inc" THEN IncValue(a) ELSE DecValue(a)
            IN  IF r = Invalid THEN Panics(Front(stack))
                ELSE Pushes(Append(Front(stack), r))
    /\ NotVM

ExecReturn ==
    /\ CanStep /\ Cur.op = "Return"
    /\ call_return' = TRUE
    /\ frames' = Returned(frames)
    /\ trace' = Logged
    /\ UNCHANGED <<phase, stack, local_vars, heap, call_break, call_continue>>
    /\ NotVM

ExecBreak ==
    /\ CanStep /\ Cur.op = "Break"
    /\ call_break' = TRUE
    /\ frames' = Returned(frames)
    /\ trace' = Logged
    /\ UNCHANGED <<phase, stack, local_vars, heap, call_return, call_continue>>
    /\ NotVM

ExecContinue ==
    /\ CanStep /\ Cur.op = "Continue"
    /\ call_continue' = TRUE
    /\ frames' = Returned(frames)
    /\ trace' = Logged
    /\ UNCHANGED <<phase, stack, local_vars, heap, call_return, call_break>>
    /\ NotVM

\* a Then that runs the else-arm on true and the then-arm on false
ExecThen_Swapped ==
    /\ CanStep /\ Cur.op = "Then"
    /\ IF stack = <<>> THEN Panics(stack)
       ELSE IF Last(stack).kind # "Boolean" THEN Panics(Front(stack))
       ELSE /\ stack' = Front(stack)
            /\ frames' = Entered(frames, IF Last(stack).b THEN Cur.code2 ELSE Cur.code, "then")
            /\ FlagsCleared
            /\ trace' = Logged
            /\ UNCHANGED <<phase, local_vars, heap>>
    /\ NotVM

\* Then pops the condition and runs execute on the chosen arm
ExecThen ==
    /\ CanStep /\ Cur.op = "Then"
    /\ IF stack = <<>> THEN Panics(stack)
       ELSE IF Last(stack).kind # "Boolean" THEN Panics(Front(stack))
       ELSE /\ stack' = Front(stack)
            /\ frames' = Entered(frames, IF Last(stack).b THEN Cur.code ELSE Cur.code2, "then")
            /\ FlagsCleared
            /\ trace' = Logged
            /\ UNCHANGED <<phase, local_vars, heap>>
    /\ NotVM

\* Loop runs execute on its block
ExecLoop ==
    /\ CanStep /\ Cur.op = "Loop"
    /\ frames' = Entered(frames, Cur.code, "loop")
    /\ FlagsCleared
    /\ trace' = Logged
    /\ UNCHANGED <<phase, stack, local_vars, heap>>
    /\ NotVM

\* the arm's execute returns to the Then handler: with a flag set the
\* enclosing execute returns too, else its for loop goes on
ExitThen ==
    /\ Exiting /\ Top.kind = "then"
    /\ frames' = IF AnyFlag THEN Returned(Front(frames)) ELSE Advanced(Front(frames))
    /\ UNCHANGED <<phase, stack, local_vars, heap, trace>>
    /\ FlagsKept
    /\ NotVM

\* the block's execute returns to the Loop handler, which tests call_break,
\* then call_continue, then call_return, and otherwise runs the block again
ExitLoop ==
    /\ Exiting /\ Top.kind = "loop"
    /\ IF call_break
       THEN /\ frames' = Advanced(Front(frames))
            /\ FlagsKept
       ELSE IF ~call_continue /\ call_return
       THEN /\ frames' = Returned(Front(frames))
            /\ FlagsKept
       ELSE /\ frames' = [frames EXCEPT ![Len(frames)].pc = 1]
            /\ FlagsCleared
    /\ UNCHANGED <<phase, stack, local_vars, heap, trace>>
    /\ NotVM

\* a return from a function that leaves the callee's locals frame pushed
ExitCall_KeepsFrame ==
    /\ Exiting /\ Top.kind = "call"
    /\ IF Len(frames) = 1
       THEN /\ phase' = "done"
            /\ frames' = <<>>
            /\ FlagsKept
       ELSE /\ phase' = phase
            /\ frames' = Advanced(Front(frames))
            /\ FlagsCleared
    /\ UNCHANGED <<stack, heap, trace, local_vars>>
    /\ NotVM

\* a return from a function after which the Call handler leaves the flags
\* as the callee set them
ExitCall_KeepsFlags ==
    /\ Exiting /\ Top.kind = "call"
    /\ local_vars' = Front(local_vars)
    /\ IF Len(frames) = 1
       THEN /\ phase' = "done"
            /\ frames' = <<>>
       ELSE /\ phase' = phase
            /\ frames' = Advanced(Front(frames))
    /\ FlagsKept
    /\ UNCHANGED <<stack, heap, trace>>
    /\ NotVM

\* the function's execute returns to VirtualMachine::call, which pops the
\* locals frame; a Call instruction then clears the flags and goes on
ExitCall ==
    /\ Exiting /\ Top.kind = "call"
    /\ local_vars' = Front(local_vars)
    /\ IF Len(frames) = 1
       THEN /\ phase' = "done"
            /\ frames' = <<>>
            /\ FlagsKept
       ELSE /\ phase' = phase
            /\ frames' = Advanced(Front(frames))
            /\ FlagsCleared
    /\ UNCHANGED <<stack, heap, trace>>
    /\ NotVM

\* the execute that the host invoked returns to the host
ExitExecute ==
    /\ Exiting /\ Top.kind = "execute"
    /\ phase' = "done"
    /\ frames' = <<>>
    /\ FlagsKept
    /\ UNCHANGED <<stack, local_vars, heap, trace>>
    /\ NotVM

(***************************************************************************)
(* Strings of the programs below, as UTF-8 bytes.                          *)
(***************************************************************************)
S_m == <<109>>                                     \* "m"
S_k == <<107>>                                     \* "k"
S_lib == <<108, 105, 98>>                          \* "lib"
S_nolib == <<110, 111, 108, 105, 98>>              \* "nolib"
S_len == <<108, 101, 110>>                         \* "len"
S_unit == <<117, 110, 105, 116>>                   \* "unit"
S_u == <<117>>                                     \* "u"
S_f == <<102>>                                     \* "f"
S_sub == <<115, 117, 98>>                          \* "sub"
S_sub2 == <<115, 117, 98, 50>>                     \* "sub2"
S_lt == <<108, 116>>                               \* "lt"
S_le == <<108, 101>>                               \* "le"
S_gt == <<103, 116>>                               \* "gt"
S_ge == <<103, 101>>                               \* "ge"
S_cat == <<99, 97, 116>>                           \* "cat"
S_add2 == <<97, 100, 100, 50>>                     \* "add2"
S_count == <<99, 111, 117, 110, 116>>              \* "count"
S_ret1 == <<114, 101, 116, 49>>                    \* "ret1"
S_ret2 == <<114, 101, 116, 50>>                    \* "ret2"
S_ret3 == <<114, 101, 116, 51>>                    \* "ret3"
S_ret4 == <<114, 101, 116, 52>>                    \* "ret4"
S_brk == <<98, 114, 107>>                          \* "brk"
S_brk2 == <<98, 114, 107, 50>>                     \* "brk2"
S_call0 == <<99, 97, 108, 108, 48>>                \* "call0"
S_call1 == <<99, 97, 108, 108, 49>>                \* "call1"
S_call2 == <<99, 97, 108, 108, 50>>                \* "call2"
S_id == <<105, 100>>                               \* "id"
S_pair == <<112, 97, 105, 114>>                    \* "pair"
S_obj == <<111, 98, 106>>                          \* "obj"
S_misc == <<109, 105, 115, 99>>                    \* "misc"
S_decl == <<100, 101, 99, 108>>                    \* "decl"
S_cont == <<99, 111, 110, 116>>                    \* "cont"
S_nat == <<110, 97, 116>>                          \* "nat"
S_spin == <<115, 112, 105, 110>>                   \* "spin"
S_none == <<110, 111, 110, 101>>                   \* "none"
S_foo == <<102, 111, 111>>                         \* "foo"
S_bar == <<98, 97, 114>>                           \* "bar"
S_cyc == <<99, 121, 99>>                           \* "cyc"
S_eq == <<101, 113>>                               \* "eq"
S_ne == <<110, 101>>                               \* "ne"
S_mul == <<109, 117, 108>>                         \* "mul"
S_rec == <<114, 101, 99>>                          \* "rec"
S_scope == <<115, 99, 111, 112, 101>>              \* "scope"
S_alias == <<97, 108, 105, 97, 115>>               \* "alias"
S_obj2 == <<111, 98, 106, 50>>                     \* "obj2"
S_div == <<100, 105, 118>>                         \* "div"
S_inc == <<105, 110, 99>>                          \* "inc"
S_dec == <<100, 101, 99>>                          \* "dec"
S_pop0 == <<112, 111, 112, 48>>                    \* "pop0"
S_un == <<117, 110>>                               \* "un", prefix of "un1", "un2", ...
S_sel == <<115, 101, 108>>                         \* "sel"
S_pick == <<112, 105, 99, 107>>                    \* "pick"
S_then1 == <<116, 104, 101, 110, 49>>              \* "then1"
S_miss1 == <<109, 105, 115, 115, 49>>              \* "miss1"
S_miss2 == <<109, 105, 115, 115, 50>>              \* "miss2"
S_miss3 == <<109, 105, 115, 115, 51>>              \* "miss3"
S_shadow == <<115, 104, 97, 100, 111, 119>>        \* "shadow"

(***************************************************************************)
(* Programs.  FnsM is the body of the static module "m": the end-to-end    *)
(* scenarios of the specification and functions that take their operands   *)
(* from the host's arguments.                                              *)
(***************************************************************************)
\* operands x, y from the arguments: push x, push y, apply op
OnArgs(name, op) == Fn(name, <<GetLocal(0), GetLocal(1), op>>)

\* (i32.const 2)(i32.const 3)(op.add)(return)
Fn_f == Fn(S_f, <<PushConstInteger(2), PushConstInteger(3), Add, Return>>)
\* (i32.const 10)(i32.const 3)(op.sub)
Fn_sub == Fn(S_sub, <<PushConstInteger(10), PushConstInteger(3), Sub>>)
\* (str.const "foo")(str.const "bar")(op.add)
Fn_cat == Fn(S_cat, <<PushConstString(S_foo), PushConstString(S_bar), Add>>)
\* the counter loop: reserve 1 local, store 0, loop until locals[0] >= 10
CounterLoop ==
    Loop(<<GetLocal(0), PushConstInteger(10), Ge,
           Then(<<Break>>, <<GetLocal(0), Inc, SetLocal(0)>>)>>)
Fn_count ==
    Fn(S_count, <<ReserveLocal(1), PushConstInteger(0), SetLocal(0), CounterLoop, Hi>>)
\* return inside a conditional arm inside a loop inside a conditional arm
Fn_ret1 ==
    Fn(S_ret1, <<PushConstBoolean(TRUE),
                 Then(<<Loop(<<PushConstBoolean(TRUE), Then(<<Return>>, <<>>), Hi>>), Hi>>,
                      <<>>),
                 Hi>>)
\* return in a loop body that first ran an inner loop ended by break
Fn_ret2 == Fn(S_ret2, <<Loop(<<Loop(<<Break>>), Return, Hi>>), Hi>>)
\* return directly in a loop body
Fn_ret3 == Fn(S_ret3, <<Loop(<<Return, Hi>>), Hi>>)
\* return in the else arm, chosen by the argument
Fn_ret4 ==
    Fn(S_ret4, <<GetLocal(0), Then(<<PushConstInteger(1)>>, <<Return, Hi>>),
                 PushConstInteger(2)>>)
\* break in a loop inside a conditional arm
Fn_brk ==
    Fn(S_brk, <<PushConstBoolean(TRUE),
                Then(<<Loop(<<Break>>), PushConstInteger(1)>>, <<>>),
                PushConstInteger(2)>>)
\* break inside a conditional arm inside a loop
Fn_brk2 ==
    Fn(S_brk2, <<Loop(<<PushConstBoolean(TRUE), Then(<<Break>>, <<>>), Hi>>),
                 PushConstInteger(2)>>)
\* calls with 0, 1 and 2 arguments above a value that is not an argument
Fn_call0 == Fn(S_call0, <<PushConstInteger(7), Call(S_m, S_f, 0)>>)
Fn_call1 == Fn(S_call1, <<PushConstInteger(7), GetLocal(0), Call(S_m, S_id, 1)>>)
Fn_call2 ==
    Fn(S_call2, <<PushConstInteger(7), GetLocal(0), GetLocal(1), Call(S_m, S_pair, 2),
                  Hi>>)
Fn_id == Fn(S_id, <<GetLocal(0), Return>>)
Fn_pair == Fn(S_pair, <<GetLocal(1), GetLocal(0), SetLocal(1), Break>>)
\* (alloc 2)(dup)(i32.const 7)(field.set 0)(field.get 0)
Fn_obj ==
    Fn(S_obj, <<Allocate(2), Dup, PushConstInteger(7), SetField(0), GetField(0)>>)
\* (alloc 3)(dup)(i32.const 42)(field.set 1)(field.get 1)
Fn_obj2 ==
    Fn(S_obj2, <<Allocate(3), Dup, PushConstInteger(42), SetField(1), GetField(1)>>)
\* one object reached through the handle on the stack, a copy in a local
\* and a copy stored in a field of a second object; written twice
Fn_alias ==
    Fn(S_alias, <<ReserveLocal(1), Allocate(2), Dup, SetLocal(0),
                  PushConstInteger(7), SetField(0), GetField(0),
                  GetLocal(0), GetField(0),
                  Allocate(1), GetLocal(0), SetField(0), GetField(0), GetField(0),
                  GetLocal(0), Dup, PushConstInteger(8), SetField(0), Pop,
                  GetField(0)>>)
\* an object whose field holds its own handle, then dump
Fn_cyc == Fn(S_cyc, <<Allocate(1), Dup, SetField(0), Dump>>)
Fn_misc ==
    Fn(S_misc, <<None, Hi, Dump, PushConstFloat(1), Dup, Pop, Inc, Dec, Pop, Pop>>)
Fn_decl == Fn(S_decl, <<Hi, Fn(S_f, <<>>)>>)
\* continue skips the rest of the iteration
Fn_cont ==
    Fn(S_cont, <<ReserveLocal(1), PushConstInteger(0), SetLocal(0),
                 Loop(<<GetLocal(0), PushConstInteger(2), Eq, Then(<<Break>>, <<>>),
                        GetLocal(0), Inc, SetLocal(0), Continue, Hi>>)>>)
\* calls of native functions of the dynamic module "lib"
Fn_nat ==
    Fn(S_nat, <<PushConstInteger(7), GetLocal(0), Call(S_lib, S_len, 1),
                Call(S_lib, S_u, 0)>>)
Fn_spin == Fn(S_spin, <<Loop(<<Hi>>)>>)
\* rec(true) resizes and writes its own frame and ends by Continue;
\* rec(false) calls rec(true) and then reads its own argument
Fn_rec ==
    Fn(S_rec, <<GetLocal(0),
                Then(<<ReserveLocal(3), PushConstInteger(9), SetLocal(2), Continue>>,
                     <<PushConstBoolean(TRUE), Call(S_m, S_rec, 1), GetLocal(0)>>)>>)
\* a caller with locals of its own around calls that end by Continue,
\* by the end of the body, by Return and by Break
Fn_scope ==
    Fn(S_scope, <<ReserveLocal(2), PushConstInteger(5), SetLocal(1),
                  PushConstBoolean(FALSE), Call(S_m, S_rec, 1),
                  Call(S_m, S_sub, 0), Call(S_m, S_id, 1),
                  GetLocal(1), Call(S_m, S_pair, 2), GetLocal(1)>>)

\* one operand from the arguments
OnArg(name, op) == Fn(name, <<GetLocal(0), op>>)
\* Pop on the empty stack, then one more instruction
Fn_pop0 == Fn(S_pop0, <<Pop, Hi>>)
\* instructions that find fewer operands on the stack than they consume
UnderflowBodies ==
    <<<<Dup, Hi>>, <<Then(<<Hi>>, <<Hi>>), Hi>>, <<Inc, Hi>>, <<Dec, Hi>>,
      <<GetField(0), Hi>>, <<ReserveLocal(1), SetLocal(0), Hi>>,
      <<Add, Hi>>, <<PushConstInteger(1), Add, Hi>>, <<PushConstInteger(1), Lt, Hi>>,
      <<SetField(0), Hi>>, <<Allocate(1), SetField(0), Hi>>,
      <<Call(S_m, S_id, 1), Hi>>, <<PushConstInteger(1), Call(S_m, S_pair, 2), Hi>>,
      <<PushConstInteger(1), Call(S_lib, S_len, 2), Hi>>>>
FnsUnderflow ==
    [i \in 1..Len(UnderflowBodies) |-> Fn(S_un \o <<64 + i>>, UnderflowBodies[i])]
\* (bool.const true)(then (i32.const 1)(return) else (i32.const 2)(return))
Fn_sel ==
    Fn(S_sel, <<PushConstBoolean(TRUE),
                Then(<<PushConstInteger(1), Return>>, <<PushConstInteger(2), Return>>)>>)
\* the condition from the argument, with an else-arm and without one
Fn_pick ==
    Fn(S_pick, <<GetLocal(0), Then(<<PushConstInteger(1)>>, <<PushConstInteger(2)>>),
                 Hi>>)
Fn_then1 == Fn(S_then1, <<GetLocal(0), Then(<<PushConstInteger(1)>>, <<>>), Hi>>)
\* calls of a module that is not registered and of functions that the
\* selected module does not have
Fn_miss1 == Fn(S_miss1, <<PushConstInteger(7), GetLocal(0), Call(S_none, S_f, 1), Hi>>)
Fn_miss2 == Fn(S_miss2, <<PushConstInteger(7), GetLocal(0), Call(S_m, S_none, 1), Hi>>)
Fn_miss3 == Fn(S_miss3, <<PushConstInteger(7), GetLocal(0), Call(S_lib, S_none, 1), Hi>>)
\* calls of lib.f and lib.len from code
Fn_shadow == Fn(S_shadow, <<Call(S_lib, S_f, 0), GetLocal(0), Call(S_lib, S_len, 1)>>)

FnsM ==
    <<Fn_f, Fn_sub, Fn_cat, Fn_count, Fn_ret1, Fn_ret2, Fn_ret3, Fn_ret4, Fn_brk,
      Fn_brk2, Fn_call0, Fn_call1, Fn_call2, Fn_id, Fn_pair, Fn_obj, Fn_cyc, Fn_misc,
      Fn_decl, Fn_cont, Fn_nat, Fn_spin, Fn_rec, Fn_scope, Fn_obj2, Fn_alias,
      OnArgs(S_sub2, Sub), OnArgs(S_add2, Add), OnArgs(S_mul, Mul),
      OnArgs(S_eq, Eq), OnArgs(S_ne, Ne),
      OnArgs(S_lt, Lt), OnArgs(S_le, Le), OnArgs(S_gt, Gt), OnArgs(S_ge, Ge)>>

\* a second module "m"
S_nest == <<110, 101, 115, 116>>                   \* "nest"
S_skip == <<115, 107, 105, 112>>                   \* "skip"
\* an inner loop ended by break in a loop body that goes on
Fn_nest == Fn(S_nest, <<Loop(<<Loop(<<Break>>), Hi>>), Dump>>)
\* a continue in a loop body that first ran an inner loop ended by break
Fn_skip == Fn(S_skip, <<Loop(<<Loop(<<Break>>), Continue, Hi>>), Dump>>)
S_fget == <<102, 103, 101, 116>>                   \* "fget"
S_fset == <<102, 115, 101, 116>>                   \* "fset"
S_oob == <<111, 111, 98>>                          \* "oob"
S_lset == <<108, 115, 101, 116>>                   \* "lset"
\* field 0 of the argument is read, is written
Fn_fget == Fn(S_fget, <<GetLocal(0), GetField(0), Hi>>)
Fn_fset == Fn(S_fset, <<GetLocal(0), PushConstInteger(1), SetField(0), Hi>>)
\* field 1 of an object of one field is written, is read
Fn_oob ==
    Fn(S_oob, <<GetLocal(0),
                Then(<<Allocate(1), PushConstInteger(1), SetField(1), Hi>>,
                     <<Allocate(1), GetField(1), Hi>>)>>)
S_div10 == <<100, 105, 118, 49, 48>>               \* "div10"
\* (i32.const 10)(i32.const 2)(op.div)
Fn_div10 == Fn(S_div10, <<PushConstInteger(10), PushConstInteger(2), Div>>)
\* the second slot of the frame is written
Fn_lset == Fn(S_lset, <<PushConstInteger(1), SetLocal(1), GetLocal(1)>>)

FnsU ==
    <<Fn_id, Fn_pair, OnArgs(S_div, Div), OnArg(S_inc, Inc), OnArg(S_dec, Dec),
      Fn_pop0, Fn_sel, Fn_pick, Fn_then1, Fn_miss1, Fn_miss2, Fn_miss3, Fn_nest,
      Fn_skip, Fn_fget, Fn_fset, Fn_oob, Fn_lset, Fn_div10>>
        \o FnsUnderflow

LibBody == <<GetFunction(S_len), GetFunctionAs(S_unit, S_u)>>

\* what follows the version in a program
Bodies ==
    { <<>>,
      <<Module(S_m, <<Fn_f>>)>>,
      <<Module(S_m, <<Fn_f>>), Module(S_k, <<Fn_sub, Fn_cat>>)>>,
      <<Module(S_m, FnsM), LoadModule(S_lib, LibBody)>>,
      <<Module(S_m, FnsU), LoadModule(S_lib, LibBody)>>,
      <<LoadModule(S_lib, LibBody), Module(S_lib, <<Fn_f>>), Module(S_m, <<Fn_shadow>>)>>,
      <<Hi, Module(S_m, <<Fn_f>>)>>,
      <<LoadModule(S_lib, LibBody), GetFunction(S_len)>>,
      <<Module(S_m, <<Fn_f>>), LoadModule(S_lib, <<GetFunction(S_len), Fn_f>>)>>,
      <<Module(S_m, <<Fn_f, Hi>>)>>,
      <<Module(S_m, <<Fn_f>>), Hi>>,
      <<Hi, Module(S_m, <<Hi>>)>>,
      <<Module(S_m, <<Hi>>), Hi>>,
      <<LoadModule(S_lib, <<Hi, GetFunction(S_foo)>>), Module(S_m, <<Hi>>)>>,
      <<LoadModule(S_nolib, <<>>)>>,
      <<LoadModule(S_lib, <<GetFunction(S_len), Hi>>)>>,
      <<LoadModule(S_lib, <<GetFunction(S_foo)>>)>> }

VersionsTried ==
    { Version(a, b, c) : a \in {HostMajor, HostMajor + 1},
                         b \in {HostMinor, HostMinor - 1},
                         c \in {HostPatch, HostPatch + 1} }

Programs ==
    Bodies \cup { <<v>> \o body : v \in VersionsTried, body \in Bodies }

(***************************************************************************)
(* The host's calls.                                                       *)
(***************************************************************************)
HostValues ==
    { Integer(i) : i \in -1..MaxArg } \cup { Float(i) : i \in -1..MaxArg }
    \cup { String(S_foo), String(S_bar), Boolean(TRUE), Boolean(FALSE), Null, Object(1) }
HostArgs ==
    { <<>> } \cup { <<x>> : x \in HostValues }
    \cup { <<x, y>> : x \in HostValues, y \in HostValues }

ModuleNames == (DOMAIN modules) \cup (DOMAIN dymodules) \cup { S_none }
FunctionNames ==
    UNION { DOMAIN modules[m].functions : m \in DOMAIN modules }
    \cup UNION { DOMAIN dymodules[m].fns : m \in DOMAIN dymodules }
    \cup { S_none }

\* the host loads the program and registers what load_modules returned
Load ==
    /\ phase = "created"
    /\ LET r == load_modules(program)
       IN  /\ phase' = CASE r.status = "Ok" -> "loaded"
                         [] r.status = "Err" -> "loadError"
                         [] OTHER -> "loadPanic"
           /\ modules' = add_modules(modules, r.modules, 1)
           /\ dymodules' = add_modules(dymodules, r.dy_modules, 1)
    /\ UNCHANGED program
    /\ UNCHANGED vmvars
    /\ UNCHANGED codecvars
    /\ UNCHANGED asmvars

\* the cells of the objects the host passes: Object(1) among the arguments
\* is a handle to an object that the host created: a Values object without
\* fields or a Native object
HostHeaps(args) ==
    IF \E i \in 1..Len(args) : args[i].kind = "Object"
    THEN {<<Values(<<>>)>>, <<Native>>}
    ELSE {<<>>}

\* the host invokes VirtualMachine::call(module, name, args)
HostCall ==
    /\ phase = "loaded"
    /\ \E module \in ModuleNames, name \in FunctionNames, args \in HostArgs :
         /\ LET target == CallTarget(module, name)
            IN  IF target = "panic"
                THEN /\ phase' = "panic"
                     /\ UNCHANGED <<stack, local_vars, frames>>
                     /\ FlagsKept
                ELSE IF target = "native"
                THEN /\ phase' = "done"
                     /\ stack' = stack \o NativeResult(dymodules[module].fns[name], args)
                     /\ UNCHANGED <<local_vars, frames>>
                     /\ FlagsKept
                ELSE /\ phase' = "running"
                     /\ local_vars' = Append(local_vars, args)
                     /\ frames' = Entered(frames, modules[module].functions[name], "call")
                     /\ FlagsCleared
                     /\ UNCHANGED stack
         /\ entry' = [module |-> module, name |-> name, args |-> args]
         /\ heap' \in HostHeaps(args)
    /\ UNCHANGED trace
    /\ UNCHANGED loadvars
    /\ UNCHANGED codecvars
    /\ UNCHANGED asmvars

\* code the host hands to execute without a call: no locals frame exists
HostCode ==
    {<<Hi>>, <<Hi, ReserveLocal(1), Hi>>, <<GetLocal(0), Hi>>,
     <<PushConstInteger(1), SetLocal(0), Hi>>}

\* the host invokes VirtualMachine::execute(code) directly
HostExecute ==
    /\ phase = "loaded"
    /\ \E code \in HostCode :
         frames' = Entered(frames, code, "execute")
    /\ phase' = "running"
    /\ FlagsCleared
    /\ UNCHANGED <<stack, local_vars, heap, trace, entry>>
    /\ UNCHANGED loadvars
    /\ UNCHANGED codecvars
    /\ UNCHANGED asmvars

(***************************************************************************)
(* The loader and the interpreter.                                         *)
(***************************************************************************)
AsmIdle ==
    /\ parser_source = <<>>
    /\ parser_position = 0
    /\ tokens = <<>>
    /\ parsed = [status |-> "None", sexprs |-> <<>>]
    /\ assembled = [status |-> "None", code |-> <<>>]
    /\ aphase = "idle"

NoRequest == [op |-> "none", n |-> 0]
WireIdle ==
    /\ request = NoRequest
    /\ written = [kind |-> "none", n |-> 0, s |-> <<>>]
    /\ readback = [ok |-> FALSE, v |-> 0, pos |-> 0, panic |-> FALSE]

CodecIdle ==
    /\ tree = <<>>
    /\ bytes = <<>>
    /\ decoded = [status |-> "None", code |-> <<>>]
    /\ cphase = "idle"
    /\ WireIdle

Init ==
    /\ program \in Programs
    /\ phase = "created"
    /\ modules = EmptyMap
    /\ dymodules = EmptyMap
    /\ stack = <<>>
    /\ local_vars = <<>>
    /\ call_break = FALSE
    /\ call_continue = FALSE
    /\ call_return = FALSE
    /\ heap = <<>>
    /\ frames = <<>>
    /\ trace = <<>>
    /\ entry = [module |-> <<>>, name |-> <<>>, args |-> <<>>]
    /\ CodecIdle
    /\ AsmIdle

Next ==
    \/ Load
    \/ HostCall
    \/ HostExecute
    \/ ExecNone
    \/ ExecDump
    \/ ExecHi
    \/ ExecDeclaration
    \/ ExecCall
    \/ ExecPushConst
    \/ ExecGetLocal
    \/ ExecSetLocal
    \/ ExecReserveLocal
    \/ ExecAllocate
    \/ ExecGetField
    \/ ExecSetField
    \/ ExecPop
    \/ ExecDup
    \/ ExecBinary
    \/ ExecUnary
    \/ ExecReturn
    \/ ExecBreak
    \/ ExecContinue
    \/ ExecThen
    \/ ExecLoop
    \/ ExitThen
    \/ ExitLoop
    \/ ExitCall
    \/ ExitExecute

Spec == Init /\ [][Next]_vars

(***************************************************************************)
(* ByteCode (bytecode.rs).                                                 *)
(***************************************************************************)
\* the bytes of the enumerators the spec leaves to the implementation
IncByte == 28
DecByte == 29
AliasByte == 30

\* ByteCode::X as u8
to_u8(bc) ==
    CASE bc = "None" -> 0
      [] bc = "Version" -> 23
      [] bc = "Dump" -> 1
      [] bc = "Hi" -> 2
      [] bc = "Fn" -> 3
      [] bc = "Call" -> 4
      [] bc = "PushConstString" -> 64
      [] bc = "PushConstInteger" -> 65
      [] bc = "PushConstFloat" -> 66
      [] bc = "PushConstBoolean" -> 67
      [] bc = "GetLocal" -> 9
      [] bc = "SetLocal" -> 10
      [] bc = "ReserveLocal" -> 24
      [] bc = "Allocate" -> 5
      [] bc = "GetField" -> 6
      [] bc = "SetField" -> 7
      [] bc = "Pop" -> 11
      [] bc = "Dup" -> 12
      [] bc = "Add" -> 13
      [] bc = "Sub" -> 14
      [] bc = "Mul" -> 15
      [] bc = "Div" -> 16
      [] bc = "Inc" -> IncByte
      [] bc = "Dec" -> DecByte
      [] bc = "Eq" -> 17
      [] bc = "Ne" -> 18
      [] bc = "Lt" -> 19
      [] bc = "Le" -> 20
      [] bc = "Gt" -> 21
      [] bc = "Ge" -> 22
      [] bc = "Module" -> 27
      [] bc = "LoadModule" -> 25
      [] bc = "GetFunction" -> 26
      [] bc = "Alias" -> AliasByte
      [] bc = "Return" -> 254
      [] bc = "Then" -> 253
      [] bc = "Else" -> 252
      [] bc = "Loop" -> 251
      [] bc = "Break" -> 250
      [] bc = "Continue" -> 249

\* Option<ByteCode> without a ByteCode
NoByteCode == "NoByteCode"

\* ByteCode::from_u8: the match has no arm for 0xF9
from_u8(value) ==
    CASE value = 0 -> "None"
      [] value = 23 -> "Version"
      [] value = 1 -> "Dump"
      [] value = 2 -> "Hi"
      [] value = 3 -> "Fn"
      [] value = 4 -> "Call"
      [] value = 64 -> "PushConstString"
      [] value = 65 -> "PushConstInteger"
      [] value = 66 -> "PushConstFloat"
      [] value = 67 -> "PushConstBoolean"
      [] value = 9 -> "GetLocal"
      [] value = 10 -> "SetLocal"
      [] value = 24 -> "ReserveLocal"
      [] value = 5 -> "Allocate"
      [] value = 6 -> "GetField"
      [] value = 7 -> "SetField"
      [] value = 11 -> "Pop"
      [] value = 12 -> "Dup"
      [] value = 13 -> "Add"
      [] value = 14 -> "Sub"
      [] value = 15 -> "Mul"
      [] value = 16 -> "Div"
      [] value = IncByte -> "Inc"
      [] value = DecByte -> "Dec"
      [] value = 17 -> "Eq"
      [] value = 18 -> "Ne"
      [] value = 19 -> "Lt"
      [] value = 20 -> "Le"
      [] value = 21 -> "Gt"
      [] value = 22 -> "Ge"
      [] value = 27 -> "Module"
      [] value = 25 -> "LoadModule"
      [] value = 26 -> "GetFunction"
      [] value = AliasByte -> "Alias"
      [] value = 254 -> "Return"
      [] value = 253 -> "Then"
      [] value = 252 -> "Else"
      [] value = 251 -> "Loop"
      [] value = 250 -> "Break"
      [] OTHER -> NoByteCode

(***************************************************************************)
(* binary32 on the integral values of magnitude below 2^24.                *)
(***************************************************************************)
RECURSIVE Pow2(_)
Pow2(k) == IF k = 0 THEN 1 ELSE 2 * Pow2(k - 1)
RECURSIVE Log2(_)
Log2(m) == IF m < 2 THEN 0 ELSE 1 + Log2(m \div 2)

\* f32::to_be_bytes
F32Bytes(v) ==
    IF v = 0 THEN <<0, 0, 0, 0>>
    ELSE LET sign == IF v < 0 THEN 1 ELSE 0
             e == Log2(Abs(v))
             frac == (Abs(v) - Pow2(e)) * Pow2(23 - e)
             ex == e + 127
         IN  <<sign * 128 + ex \div 2, (ex % 2) * 128 + frac \div 65536,
               (frac \div 256) % 256, frac % 256>>

\* the f32 of four big-endian bytes; partial: defined on the encodings of
\* integral values only
F32Value(bs) ==
    LET sign == bs[1] \div 128
        ex == (bs[1] % 128) * 2 + bs[2] \div 128
        frac == (bs[2] % 128) * 65536 + bs[3] * 256 + bs[4]
        e == ex - 127
    IN  CASE ex = 0 /\ frac = 0 /\ sign = 0 -> 0
          [] ex >= 127 /\ ex <= 150 /\ (8388608 + frac) % Pow2(23 - e) = 0 ->
               (IF sign = 1 THEN -1 ELSE 1) * ((8388608 + frac) \div Pow2(23 - e))

(***************************************************************************)
(* ByteWriter (byte_writer.rs).  A u32 of the model is below 2^31.         *)
(***************************************************************************)
write_byte(byte) == <<byte>>
\* the two low bytes in little-endian order
write_u32_LowBytesSwapped(value) ==
    <<(value \div 16777216) % 256, (value \div 65536) % 256, value % 256,
      (value \div 256) % 256>>
write_u32(value) ==
    <<(value \div 16777216) % 256, (value \div 65536) % 256, (value \div 256) % 256,
      value % 256>>
\* two's complement: the bytes of a negative value are the complemented
\* bytes of -(value + 1)
write_i32(value) ==
    IF value >= 0 THEN write_u32(value)
    ELSE [i \in 1..4 |-> 255 - write_u32(-(value + 1))[i]]
write_f32(value) == F32Bytes(value)
write_bool(value) == <<IF value THEN 1 ELSE 0>>
write_string(value) == write_u32(Len(value)) \o value

(***************************************************************************)
(* ByteReader (byte_reader.rs).  pos is position + 1, the index of the     *)
(* next byte; a read yields [ok, v, pos], ok = FALSE for Option::None.     *)
(***************************************************************************)
NoRead(pos) == [ok |-> FALSE, v |-> 0, pos |-> pos, panic |-> FALSE]
DidRead(v, pos) == [ok |-> TRUE, v |-> v, pos |-> pos, panic |-> FALSE]

read_byte(source, pos) ==
    IF pos - 1 < Len(source) THEN DidRead(source[pos], pos + 1) ELSE NoRead(pos)

\* a read_bytes that skips to the end of the source when it fails
read_bytes_SkipsOnNone(source, pos, count) ==
    IF pos - 1 + count <= Len(source)
    THEN DidRead(SubSeq(source, pos, pos + count - 1), pos + count)
    ELSE NoRead(Len(source) + 1)

read_bytes(source, pos, count) ==
    IF pos - 1 + count <= Len(source)
    THEN DidRead(SubSeq(source, pos, pos + count - 1), pos + count)
    ELSE NoRead(pos)

\* u32::from_le_bytes([bytes[3], bytes[2], bytes[1], bytes[0]])
U32FromBytes(bs) == bs[4] + bs[3] * 256 + bs[2] * 65536 + bs[1] * 16777216
I32FromBytes(bs) ==
    IF bs[1] < 128 THEN U32FromBytes(bs)
    ELSE -U32FromBytes([i \in 1..4 |-> 255 - bs[i]]) - 1

read_u32(source, pos) ==
    LET r == read_bytes(source, pos, 4)
    IN  IF r.ok THEN DidRead(U32FromBytes(r.v), r.pos) ELSE NoRead(pos)
read_i32(source, pos) ==
    LET r == read_bytes(source, pos, 4)
    IN  IF r.ok THEN DidRead(I32FromBytes(r.v), r.pos) ELSE NoRead(pos)
read_f32(source, pos) ==
    LET r == read_bytes(source, pos, 4)
    IN  IF r.ok THEN DidRead(F32Value(r.v), r.pos) ELSE NoRead(pos)
read_bool(source, pos) ==
    LET r == read_byte(source, pos)
    IN  IF r.ok THEN DidRead(r.v # 0, r.pos) ELSE NoRead(pos)

\* String::from_utf8: well-formed UTF-8 byte sequences
Cont(b) == b >= 128 /\ b <= 191
RECURSIVE Utf8Valid(_, _)
Utf8Valid(bs, i) ==
    IF i > Len(bs) THEN TRUE
    ELSE LET b == bs[i]
             has(k) == i + k <= Len(bs)
         IN  IF b < 128 THEN Utf8Valid(bs, i + 1)
             ELSE IF b >= 194 /\ b <= 223
             THEN has(1) /\ Cont(bs[i + 1]) /\ Utf8Valid(bs, i + 2)
             ELSE IF b >= 224 /\ b <= 239
             THEN /\ has(2)
                  /\ Cont(bs[i + 1]) /\ Cont(bs[i + 2])
                  /\ (b = 224 => bs[i + 1] >= 160)
                  /\ (b = 237 => bs[i + 1] <= 159)
                  /\ Utf8Valid(bs, i + 3)
             ELSE IF b >= 240 /\ b <= 244
             THEN /\ has(3)
                  /\ Cont(bs[i + 1]) /\ Cont(bs[i + 2]) /\ Cont(bs[i + 3])
                  /\ (b = 240 => bs[i + 1] >= 144)
                  /\ (b = 244 => bs[i + 1] <= 143)
                  /\ Utf8Valid(bs, i + 4)
             ELSE FALSE

\* read_string: a length, the bytes, and String::from_utf8(bytes).unwrap()
read_string(source, pos) ==
    LET length == read_u32(source, pos)
        r == read_bytes(source, length.pos, length.v)
    IN  IF ~length.ok THEN NoRead(pos)
        ELSE IF ~r.ok THEN NoRead(length.pos)
        ELSE IF ~Utf8Valid(r.v, 1) THEN [NoRead(r.pos) EXCEPT !.panic = TRUE]
        ELSE DidRead(r.v, r.pos)

(***************************************************************************)
(* Encoder (instruction.rs to_bytes, code_to_bytes).                       *)
(***************************************************************************)
PlainOps ==
    {"None", "Dump", "Hi", "Pop", "Dup", "Add", "Sub", "Mul", "Div", "Inc", "Dec",
     "Eq", "Ne", "Lt", "Le", "Gt", "Ge", "Return", "Break", "Continue"}
U32Ops == {"GetLocal", "SetLocal", "ReserveLocal", "Allocate", "GetField", "SetField"}
NamedBodyOps == {"Fn", "Module", "LoadModule"}

RECURSIVE to_bytes(_), code_to_bytes(_), BytesFrom(_, _)
\* opcode, u32 length of the body, the framed body
Framed(bc, code) ==
    LET block_bytes == code_to_bytes(code)
    IN  write_byte(to_u8(bc)) \o write_u32(Len(block_bytes)) \o block_bytes

\* a length field that counts the name string too
NamedBody_CountsName(ins) ==
    LET code_bytes == code_to_bytes(ins.code)
    IN  write_byte(to_u8(ins.op))
            \o write_u32(Len(write_string(ins.name)) + Len(code_bytes))
            \o write_string(ins.name) \o code_bytes

\* Fn, Module, LoadModule: opcode, u32 length of the body, name, body
NamedBody(ins) ==
    LET code_bytes == code_to_bytes(ins.code)
    IN  write_byte(to_u8(ins.op)) \o write_u32(Len(code_bytes))
            \o write_string(ins.name) \o code_bytes

to_bytes(ins) ==
    CASE ins.op \in PlainOps -> write_byte(to_u8(ins.op))
      [] ins.op = "Version" ->
           write_byte(to_u8("Version")) \o write_byte(ins.n) \o write_byte(ins.n2)
               \o write_byte(ins.n3)
      [] ins.op \in NamedBodyOps -> NamedBody(ins)
      [] ins.op = "Call" ->
           write_byte(to_u8("Call")) \o write_string(ins.name)
               \o write_string(ins.name2) \o write_u32(ins.n)
      [] ins.op = "PushConstString" ->
           write_byte(to_u8("PushConstString")) \o write_string(ins.name)
      [] ins.op = "PushConstInteger" ->
           write_byte(to_u8("PushConstInteger")) \o write_i32(ins.n)
      [] ins.op = "PushConstFloat" ->
           write_byte(to_u8("PushConstFloat")) \o write_f32(ins.n)
      [] ins.op = "PushConstBoolean" ->
           write_byte(to_u8("PushConstBoolean")) \o write_bool(ins.b)
      [] ins.op \in U32Ops -> write_byte(to_u8(ins.op)) \o write_u32(ins.n)
      [] ins.op = "GetFunction" ->
           write_byte(to_u8("GetFunction")) \o write_string(ins.name)
               \o (IF ins.alias
                   THEN write_byte(to_u8("Alias")) \o write_string(ins.name2)
                   ELSE <<>>)
      [] ins.op = "Then" ->
           Framed("Then", ins.code)
               \o (IF Len(ins.code2) > 0 THEN Framed("Else", ins.code2) ELSE <<>>)
      [] ins.op = "Loop" -> Framed("Loop", ins.code)

BytesFrom(code, i) ==
    IF i > Len(code) THEN <<>> ELSE to_bytes(code[i]) \o BytesFrom(code, i + 1)

code_to_bytes(code) == BytesFrom(code, 1)

(***************************************************************************)
(* Decoder (instruction.rs from_bytecode).  A result is                    *)
(* [status |-> "Ok" | "Err" | "Panic", code]; one decoded instruction is   *)
(* [status, ins, pos, stop], stop = TRUE when the while loop is left by    *)
(* break.                                                                  *)
(***************************************************************************)
Ok(code) == [status |-> "Ok", code |-> code]
Err == [status |-> "Err", code |-> <<>>]
Panic == [status |-> "Panic", code |-> <<>>]

Got(ins, pos) == [status |-> "Ok", ins |-> ins, pos |-> pos, stop |-> FALSE]
GotLast(ins, pos) == [status |-> "Ok", ins |-> ins, pos |-> pos, stop |-> TRUE]
NotGot(status) == [status |-> status, ins |-> None, pos |-> 0, stop |-> FALSE]
\* a failed read: read_string may have panicked, anything else is an Err
Failed(r) == NotGot(IF r.panic THEN "Panic" ELSE "Err")

RECURSIVE from_bytecode(_), DecodeLoop(_, _, _), DecodeOne(_, _, _)

\* a u32 length and that many bytes, decoded as a nested Code:
\* [status, code, pos]
DecodeBlock(source, pos) ==
    LET lenght == read_u32(source, pos)
        block == read_bytes(source, lenght.pos, lenght.v)
        inner == from_bytecode(block.v)
    IN  IF ~lenght.ok \/ ~block.ok THEN [status |-> "Err", code |-> <<>>, pos |-> pos]
        ELSE [status |-> inner.status, code |-> inner.code, pos |-> block.pos]

\* Func, Module, LoadModule: u32 length, name, body
DecodeNamedBody(op, source, pos) ==
    LET lenght == read_u32(source, pos)
        name == read_string(source, lenght.pos)
        body == read_bytes(source, name.pos, lenght.v)
        inner == from_bytecode(body.v)
    IN  IF ~lenght.ok THEN NotGot("Err")
        ELSE IF ~name.ok THEN Failed(name)
        ELSE IF ~body.ok THEN NotGot("Err")
        ELSE IF inner.status # "Ok" THEN NotGot(inner.status)
        ELSE Got(Ins(op, name.v, <<>>, FALSE, 0, 0, 0, FALSE, inner.code, <<>>), body.pos)

DecodeVersion(source, pos) ==
    LET major == read_byte(source, pos)
        minor == read_byte(source, major.pos)
        patch == read_byte(source, minor.pos)
    IN  IF major.ok /\ minor.ok /\ patch.ok
        THEN Got(Version(major.v, minor.v, patch.v), patch.pos)
        ELSE NotGot("Err")

DecodeCall(source, pos) ==
    LET module == read_string(source, pos)
        function == read_string(source, module.pos)
        param_count == read_u32(source, function.pos)
    IN  IF ~module.ok THEN Failed(module)
        ELSE IF ~function.ok THEN Failed(function)
        ELSE IF ~param_count.ok THEN NotGot("Err")
        ELSE Got(Call(module.v, function.v, param_count.v), param_count.pos)

\* GetFunction: the name, then a look at the next byte; with an Alias tag
\* the aliased instruction is pushed and the decoding loop is left
DecodeGetFunction(source, pos) ==
    LET name == read_string(source, pos)
        saved == name.pos
        byte == read_byte(source, saved)
        alias == read_string(source, byte.pos)
    IN  IF ~name.ok THEN Failed(name)
        ELSE IF byte.ok /\ from_u8(byte.v) = "Alias"
        THEN IF ~alias.ok THEN Failed(alias)
             ELSE GotLast(GetFunctionAs(name.v, alias.v), alias.pos)
        ELSE Got(GetFunction(name.v), saved)

\* Then: the framed then-block, then a look at the next byte for Else
DecodeThen(source, pos) ==
    LET then_block == DecodeBlock(source, pos)
        saved == then_block.pos
        byte == read_byte(source, saved)
        else_block == DecodeBlock(source, byte.pos)
    IN  IF then_block.status # "Ok" THEN NotGot(then_block.status)
        ELSE IF byte.ok /\ from_u8(byte.v) = "Else"
        THEN IF else_block.status # "Ok" THEN NotGot(else_block.status)
             ELSE Got(Then(then_block.code, else_block.code), else_block.pos)
        ELSE Got(Then(then_block.code, <<>>), saved)

DecodeLoopIns(source, pos) ==
    LET block == DecodeBlock(source, pos)
    IN  IF block.status # "Ok" THEN NotGot(block.status)
        ELSE Got(Loop(block.code), block.pos)

DecodeString(source, pos) ==
    LET value == read_string(source, pos)
    IN  IF value.ok THEN Got(PushConstString(value.v), value.pos) ELSE Failed(value)
DecodeInteger(source, pos) ==
    LET value == read_i32(source, pos)
    IN  IF value.ok THEN Got(PushConstInteger(value.v), value.pos) ELSE NotGot("Err")
DecodeFloat(source, pos) ==
    LET value == read_f32(source, pos)
    IN  IF value.ok THEN Got(PushConstFloat(value.v), value.pos) ELSE NotGot("Err")
DecodeBoolean(source, pos) ==
    LET value == read_bool(source, pos)
    IN  IF value.ok THEN Got(PushConstBoolean(value.v), value.pos) ELSE NotGot("Err")
DecodeU32Op(op, source, pos) ==
    LET index == read_u32(source, pos)
    IN  IF index.ok THEN Got(WithN(op, index.v), index.pos) ELSE NotGot("Err")

\* the match on the opcode, with the reader just behind the opcode byte
DecodeOne(bc, source, pos) ==
    CASE bc \in PlainOps -> Got(Plain(bc), pos)
      [] bc = "Version" -> DecodeVersion(source, pos)
      [] bc \in NamedBodyOps -> DecodeNamedBody(bc, source, pos)
      [] bc = "Call" -> DecodeCall(source, pos)
      [] bc = "PushConstString" -> DecodeString(source, pos)
      [] bc = "PushConstInteger" -> DecodeInteger(source, pos)
      [] bc = "PushConstFloat" -> DecodeFloat(source, pos)
      [] bc = "PushConstBoolean" -> DecodeBoolean(source, pos)
      [] bc \in U32Ops -> DecodeU32Op(bc, source, pos)
      [] bc = "GetFunction" -> DecodeGetFunction(source, pos)
      [] bc = "Then" -> DecodeThen(source, pos)
      [] bc = "Loop" -> DecodeLoopIns(source, pos)
      [] bc \in {"Alias", "Else"} -> NotGot("Err")

\* while let Some(byte) = reader.read_byte()
DecodeLoop(source, pos, code) ==
    LET byte == read_byte(source, pos)
        bc == from_u8(byte.v)
        r == DecodeOne(bc, source, byte.pos)
    IN  IF ~byte.ok THEN Ok(code)
        ELSE IF bc = NoByteCode THEN Err
        ELSE IF r.status # "Ok" THEN [status |-> r.status, code |-> <<>>]
        ELSE IF r.stop THEN Ok(Append(code, r.ins))
        ELSE DecodeLoop(source, r.pos, Append(code, r.ins))

from_bytecode(bytecode) == DecodeLoop(bytecode, 1, <<>>)

(***************************************************************************)
(* The codec on its own: a Code is encoded by code_to_bytes and the bytes  *)
(* are decoded by from_bytecode.                                           *)
(***************************************************************************)
\* the deepest nesting of Then and Loop blocks in an encoded function body
MaxDepth == 2
\* the most fn.get entries in an encoded mod.load body
MaxEntries == 2

S_utf8 == <<195, 169, 33>>      \* "e-acute" in two bytes, then "!"

IntegerSamples ==
    {-1, 0, 1, MaxArg, 255, 256, 65536, 16777216, -256, -65537, 2147483647,
     -2147483647 - 1}
FloatSamples == {-3, -1, 0, 1, 2, 3, 10, 16777215}
U32Samples == {0, 1, MaxArg, 255, 256, 65536, 2147483647}

Leaves ==
    {Plain(op) : op \in PlainOps}
        \cup {Version(HostMajor, HostMinor, HostPatch), Version(255, 0, 128)}
        \cup {Call(S_m, S_f, n) : n \in {0, MaxArg}}
        \cup {Call(<<>>, S_utf8, 1)}
        \cup {PushConstString(s) : s \in {<<>>, S_foo, S_utf8}}
        \cup {PushConstInteger(v) : v \in IntegerSamples}
        \cup {PushConstFloat(v) : v \in FloatSamples}
        \cup {PushConstBoolean(b) : b \in BOOLEAN}
        \cup {WithN(op, n) : op \in U32Ops, n \in U32Samples}
        \cup {GetFunction(S_len), GetFunctionAs(S_len, S_u)}

CoreBlocks ==
    {<<>>, <<Break>>, <<Continue>>, <<Inc>>, <<Return>>,
     <<GetLocal(0), Dec, SetLocal(0)>>}
ElseBlocks == {<<Hi>>, <<Continue>>}

\* the blocks with at most d levels of Then and Loop
RECURSIVE Nest(_)
Nest(d) ==
    IF d = 0 THEN CoreBlocks
    ELSE LET inner == Nest(d - 1)
         IN  inner
                 \cup {<<Loop(c)>> : c \in inner}
                 \cup {<<Then(c, <<>>)>> : c \in inner}
                 \cup {<<Then(c, e)>> : c \in inner, e \in ElseBlocks}
                 \cup {<<Then(c, <<>>), Hi>> : c \in inner}
                 \cup {<<PushConstBoolean(TRUE), Then(c, e), Loop(c)>> :
                          c \in inner, e \in ElseBlocks}

EntryAtoms ==
    {GetFunction(S_len), GetFunction(S_unit), GetFunctionAs(S_len, S_u),
     GetFunctionAs(S_unit, S_f)}
RECURSIVE SeqsUpTo(_, _)
SeqsUpTo(S, n) ==
    IF n = 0 THEN {<<>>}
    ELSE LET shorter == SeqsUpTo(S, n - 1)
         IN  shorter \cup {Append(s, x) : s \in shorter, x \in S}
Entries == SeqsUpTo(EntryAtoms, MaxEntries)

HostVersion == Version(HostMajor, HostMinor, HostPatch)

\* the last line: the programs whose module bodies have fewer than 20
\* instructions
Trees ==
    {<<a>> : a \in Leaves}
        \cup {<<a, Hi>> : a \in Leaves}
        \cup Nest(MaxDepth)
        \cup {<<Fn(S_f, c)>> : c \in Nest(MaxDepth)}
        \cup {<<HostVersion, Module(S_m, <<Fn(S_f, c), Fn(S_u, <<Hi>>)>>)>> :
                 c \in Nest(MaxDepth - 1)}
        \cup {<<LoadModule(S_lib, es)>> : es \in Entries}
        \cup {<<HostVersion, LoadModule(S_lib, es), Module(S_k, <<Fn_f>>)>> :
                 es \in Entries}
        \cup {p \in Programs : \A k \in 1..Len(p) : Len(p[k].code) < 20}

InitCodec ==
    /\ program = <<>>
    /\ phase = "created"
    /\ modules = EmptyMap
    /\ dymodules = EmptyMap
    /\ stack = <<>>
    /\ local_vars = <<>>
    /\ call_break = FALSE
    /\ call_continue = FALSE
    /\ call_return = FALSE
    /\ heap = <<>>
    /\ frames = <<>>
    /\ trace = <<>>
    /\ entry = [module |-> <<>>, name |-> <<>>, args |-> <<>>]
    /\ tree \in Trees
    /\ bytes = <<>>
    /\ decoded = [status |-> "None", code |-> <<>>]
    /\ cphase = "tree"
    /\ WireIdle
    /\ AsmIdle

\* let bytes = Instruction::code_to_bytes(&tree)
Encode ==
    /\ cphase = "tree"
    /\ bytes' = code_to_bytes(tree)
    /\ cphase' = "encoded"
    /\ UNCHANGED <<tree, decoded, phase, written, readback, request>>
    /\ UNCHANGED loadvars
    /\ UNCHANGED vmvars
    /\ UNCHANGED asmvars

\* let decoded = Instruction::from_bytecode(&bytes)
Decode ==
    /\ cphase = "encoded"
    /\ decoded' = from_bytecode(bytes)
    /\ cphase' = "decoded"
    /\ UNCHANGED <<tree, bytes, phase, written, readback, request>>
    /\ UNCHANGED loadvars
    /\ UNCHANGED vmvars
    /\ UNCHANGED asmvars

NextCodec ==
    \/ Encode
    \/ Decode

SpecCodec == InitCodec /\ [][NextCodec]_vars

(***************************************************************************)
(* The byte writer and reader on their own, and the decoder on byte        *)
(* streams that no encoder wrote: a value is written and read back; a      *)
(* stream is a prefix of an encoding, or an encoding with one byte         *)
(* replaced.                                                               *)
(***************************************************************************)
S_test == <<116, 101, 115, 116>>
S_long == [i \in 1..40 |-> 97]

WireU32(value) == [kind |-> "u32", n |-> value, s |-> <<>>]
WireI32(value) == [kind |-> "i32", n |-> value, s |-> <<>>]
WireString(value) == [kind |-> "string", n |-> 0, s |-> value]

\* u32 values below 2^31, by their four bytes
U32Values ==
    {a * 16777216 + b * 65536 + c * 256 + d :
        a \in {0, 1, 9, 127}, b \in {0, 171, 255}, c \in {0, 1, 205, 255},
        d \in {0, 128, 239, 255}}
\* the i32 values with those bytes and with their complements; the i32
\* whose bytes are 89 AB CD EF is among them
I32Values ==
    U32Values \cup {-v - 1 : v \in U32Values} \cup {-1985229329, 1985229328}
StringValues == {<<>>, S_foo, S_utf8, S_test, S_long}

WireValues ==
    {WireU32(v) : v \in U32Values} \cup {WireI32(v) : v \in I32Values}
        \cup {WireString(v) : v \in StringValues}

\* the trees whose encodings are cut short
StreamTrees ==
    {<<a>> : a \in Leaves}
        \cup {<<Fn(S_f, <<PushConstString(S_foo), Then(<<Hi>>, <<Continue>>),
                          Loop(<<Break>>)>>)>>,
              <<HostVersion, Module(S_m, <<Fn_f>>)>>,
              <<LoadModule(S_lib, <<GetFunctionAs(S_len, S_u), GetFunction(S_unit)>>)>>,
              <<PushConstBoolean(TRUE), Then(<<Hi>>, <<Dump>>), Hi>>}
\* the trees whose encodings get one byte replaced: no f32 operand, and u32
\* operands of one byte
CorruptTrees ==
    {t \in StreamTrees :
        \A i \in 1..Len(t) :
            /\ t[i].op # "PushConstFloat"
            /\ t[i].op \in U32Ops \cup {"Call"} => t[i].n < 128}
\* the bytes put in: the Else tag, the Alias tag, a byte that is no opcode
\* and no UTF-8, and 0xF9
CorruptBytes == {to_u8("Else"), to_u8("Alias"), 255, 249}

Prefixes(bs) == {SubSeq(bs, 1, k) : k \in 0..Len(bs)}
\* one non-zero byte replaced
Corruptions(bs) ==
    {[bs EXCEPT ![i] = b] : i \in {j \in 1..Len(bs) : bs[j] # 0}, b \in CorruptBytes}

Streams ==
    UNION {Prefixes(code_to_bytes(t)) : t \in StreamTrees}
        \cup UNION {Corruptions(code_to_bytes(t)) : t \in CorruptTrees}
        \cup {<<to_u8("Hi"), to_u8("Else"), 0, 0, 0, 0>>,
              <<to_u8("Hi"), to_u8("Alias"), 0, 0, 0, 0>>}

\* the byte vectors of the reader's tests, and vectors with a string, an
\* empty string and a string that is no UTF-8
ReaderSources ==
    {<<>>, <<1, 2, 3, 4>>, <<0, 0, 0, 4>> \o S_test, <<0, 0, 0, 5>> \o S_test,
     <<137, 171, 205>>, <<0, 0, 0, 0, 7>>, <<0, 0, 0, 1, 255>>}

\* a value for the writer, a stream for the decoder, or a source for a
\* reader
WireInputs ==
    {[cphase |-> "value", written |-> w, bytes |-> <<>>] : w \in WireValues}
        \cup {[cphase |-> "stream",
               written |-> [kind |-> "none", n |-> 0, s |-> <<>>],
               bytes |-> bs] : bs \in Streams}
        \cup {[cphase |-> "source",
               written |-> [kind |-> "none", n |-> 0, s |-> <<>>],
               bytes |-> bs] : bs \in ReaderSources}

InitWire ==
    /\ program = <<>>
    /\ phase = "created"
    /\ modules = EmptyMap
    /\ dymodules = EmptyMap
    /\ stack = <<>>
    /\ local_vars = <<>>
    /\ call_break = FALSE
    /\ call_continue = FALSE
    /\ call_return = FALSE
    /\ heap = <<>>
    /\ frames = <<>>
    /\ trace = <<>>
    /\ entry = [module |-> <<>>, name |-> <<>>, args |-> <<>>]
    /\ tree = <<>>
    /\ decoded = [status |-> "None", code |-> <<>>]
    /\ readback = [ok |-> FALSE, v |-> 0, pos |-> 0, panic |-> FALSE]
    /\ request = NoRequest
    /\ \E input \in WireInputs :
           /\ cphase = input.cphase
           /\ written = input.written
           /\ bytes = input.bytes
    /\ AsmIdle

NotWire ==
    /\ UNCHANGED loadvars /\ UNCHANGED vmvars /\ UNCHANGED asmvars /\ UNCHANGED phase
    /\ UNCHANGED <<tree, written>>
\* the steps without a reader of their own
NoReader == UNCHANGED request

\* writer.write_u32(v), writer.write_i32(v) or writer.write_string(s) on an
\* empty buffer
Write ==
    /\ cphase = "value"
    /\ bytes' = CASE written.kind = "u32" -> write_u32(written.n)
                  [] written.kind = "i32" -> write_i32(written.n)
                  [] written.kind = "string" -> write_string(written.s)
    /\ cphase' = "written"
    /\ UNCHANGED <<decoded, readback>>
    /\ NotWire /\ NoReader

\* ByteReader::new(&bytes) and the read of the same kind
Read ==
    /\ cphase = "written"
    /\ readback' = CASE written.kind = "u32" -> read_u32(bytes, 1)
                     [] written.kind = "i32" -> read_i32(bytes, 1)
                     [] written.kind = "string" -> read_string(bytes, 1)
    /\ cphase' = "read"
    /\ UNCHANGED <<decoded, bytes>>
    /\ NotWire /\ NoReader

\* Instruction::from_bytecode(&bytes) on a stream
DecodeStream ==
    /\ cphase = "stream"
    /\ decoded' = from_bytecode(bytes)
    /\ cphase' = "streamDecoded"
    /\ UNCHANGED <<bytes, readback>>
    /\ NotWire /\ NoReader

\* the most bytes asked of read_bytes
MaxCount == 5
Requests ==
    {[op |-> o, n |-> 0] : o \in {"byte", "u32", "string"}}
        \cup {[op |-> "bytes", n |-> count] : count \in 0..MaxCount}

\* ByteReader::new(&bytes): position 0, the first byte is the next one
NewReader ==
    /\ cphase = "source"
    /\ readback' = NoRead(1)
    /\ cphase' = "reading"
    /\ UNCHANGED <<decoded, bytes, request>>
    /\ NotWire

\* reader.read_byte(), read_bytes(n), read_u32() or read_string() at the
\* position the reader has
ReadNext ==
    /\ cphase = "reading"
    /\ ~readback.panic
    /\ \E req \in Requests :
         /\ request' = req
         /\ readback' = CASE req.op = "byte" -> read_byte(bytes, readback.pos)
                          [] req.op = "bytes" -> read_bytes(bytes, readback.pos, req.n)
                          [] req.op = "u32" -> read_u32(bytes, readback.pos)
                          [] req.op = "string" -> read_string(bytes, readback.pos)
    /\ UNCHANGED <<decoded, bytes, cphase>>
    /\ NotWire

NextWire ==
    \/ Write
    \/ Read
    \/ DecodeStream
    \/ NewReader
    \/ ReadNext

SpecWire == InitWire /\ [][NextWire]_vars

(***************************************************************************)
(* Parser (parser.rs).  A source text is the sequence of its characters,   *)
(* each character its code; position is the number of characters before   *)
(* the next one read, as in self.source.chars().nth(self.position).        *)
(***************************************************************************)
Atom(text) == [atom |-> TRUE, text |-> text, list |-> <<>>]
List(args) == [atom |-> FALSE, text |-> <<>>, list |-> args]

\* the characters next_token matches: ( ) and space, LF, CR, tab
Parens == {40, 41}
Whitespace == {32, 10, 13, 9}

\* Option<String> and the position next_token leaves
Token(some, token, pos) == [some |-> some, token |-> token, position |-> pos]
\* the end of next_token: None for an empty token, else Some(token)
EndToken(token, pos) == Token(token # <<>>, token, pos)

\* the loop behind an opening quote
RECURSIVE StringBody(_, _, _)
StringBody(src, pos, token) ==
    IF pos >= Len(src) THEN [closed |-> FALSE, token |-> token, position |-> pos]
    ELSE IF src[pos + 1] = 34
         THEN [closed |-> TRUE, token |-> token, position |-> pos + 1]
         ELSE StringBody(src, pos + 1, Append(token, src[pos + 1]))

\* the loop behind a ';': up to the next newline, which it leaves unread
RECURSIVE CommentBody(_, _)
CommentBody(src, pos) ==
    IF pos >= Len(src) THEN [ended |-> FALSE, position |-> pos]
    ELSE IF src[pos + 1] = 10 THEN [ended |-> TRUE, position |-> pos]
    ELSE CommentBody(src, pos + 1)

\* a loop that consumes the delimiter that ends an atom
RECURSIVE TokenLoop_DropsDelimiter(_, _, _)
TokenLoop_DropsDelimiter(src, pos, token) ==
    IF pos >= Len(src) THEN EndToken(token, pos)
    ELSE LET char == src[pos + 1]
         IN  IF char \in Parens \cup Whitespace \cup {34, 59}
             THEN IF token # <<>> THEN EndToken(token, pos + 1)
                  ELSE IF char \in Parens THEN EndToken(<<char>>, pos + 1)
                  ELSE IF char = 34
                  THEN LET s == StringBody(src, pos + 1, token)
                       IN  IF s.closed THEN EndToken(s.token, s.position)
                           ELSE Token(FALSE, <<>>, s.position)
                  ELSE IF char = 59
                  THEN LET c == CommentBody(src, pos + 1)
                       IN  IF c.ended THEN TokenLoop_DropsDelimiter(src, c.position, token)
                           ELSE Token(FALSE, <<>>, c.position)
                  ELSE TokenLoop_DropsDelimiter(src, pos + 1, token)
             ELSE TokenLoop_DropsDelimiter(src, pos + 1, Append(token, char))

\* the outer loop of next_token
RECURSIVE TokenLoop(_, _, _)
TokenLoop(src, pos, token) ==
    IF pos >= Len(src) THEN EndToken(token, pos)
    ELSE LET char == src[pos + 1]
         IN  IF char \in Parens
             THEN IF token # <<>> THEN EndToken(token, pos)
                  ELSE EndToken(<<char>>, pos + 1)
             ELSE IF char = 34
             THEN IF token # <<>> THEN EndToken(token, pos)
                  ELSE LET s == StringBody(src, pos + 1, token)
                       IN  IF s.closed THEN EndToken(s.token, s.position)
                           ELSE Token(FALSE, <<>>, s.position)
             ELSE IF char = 59
             THEN IF token # <<>> THEN EndToken(token, pos)
                  ELSE LET c == CommentBody(src, pos + 1)
                       IN  IF c.ended THEN TokenLoop(src, c.position, token)
                           ELSE Token(FALSE, <<>>, c.position)
             ELSE IF char \in Whitespace
             THEN IF token # <<>> THEN EndToken(token, pos)
                  ELSE TokenLoop(src, pos + 1, token)
             ELSE TokenLoop(src, pos + 1, Append(token, char))

next_token(src, pos) == TokenLoop(src, pos, <<>>)

\* Result<Option<SExpr>, String> and the position parse_sexp leaves
SExprResult(status, sexpr, pos) ==
    [status |-> status, sexpr |-> sexpr, position |-> pos]

RECURSIVE parse_sexp(_, _), ArgsLoop(_, _, _)
\* the loop of parse_sexp that collects the elements of a list
ArgsLoop(src, pos, args) ==
    LET t == next_token(src, pos)
    IN  IF ~t.some THEN SExprResult("Err", Atom(<<>>), t.position)
        ELSE IF t.token = <<41>> THEN SExprResult("Some", List(args), t.position)
        ELSE IF t.token = <<40>>
        THEN LET inner == parse_sexp(src, t.position - 1)
             IN  IF inner.status = "Some"
                 THEN ArgsLoop(src, inner.position, Append(args, inner.sexpr))
                 ELSE SExprResult("Err", Atom(<<>>), inner.position)
        ELSE ArgsLoop(src, t.position, Append(args, Atom(t.token)))

parse_sexp(src, pos) ==
    LET t == next_token(src, pos)
    IN  IF ~t.some THEN SExprResult("None", Atom(<<>>), t.position)
        ELSE IF t.token = <<40>> THEN ArgsLoop(src, t.position, <<>>)
        ELSE SExprResult("Err", Atom(<<>>), t.position)

\* the loop of Parser::parse
RECURSIVE ParseLoop(_, _, _)
ParseLoop(src, pos, sexprs) ==
    LET r == parse_sexp(src, pos)
    IN  IF r.status = "Err" THEN [status |-> "Err", sexprs |-> <<>>]
        ELSE IF r.status = "None" THEN [status |-> "Ok", sexprs |-> sexprs]
        ELSE ParseLoop(src, r.position, Append(sexprs, r.sexpr))

\* Parser::new(src).parse()
parse(src) == ParseLoop(src, 0, <<>>)

(***************************************************************************)
(* Lowering of S-expressions to instructions (instruction.rs from_sexpr,   *)
(* from_sexprs) and assemble (asm.rs).  A result is Ok with the            *)
(* instructions, Err, or Panic when an unwrap() in the lowering fails.     *)
(***************************************************************************)
M_version == <<118, 101, 114, 115, 105, 111, 110>>           \* "version"
M_fn == <<102, 110>>                                         \* "fn"
M_call == <<99, 97, 108, 108>>                               \* "call"
M_str_const == <<115, 116, 114, 46, 99, 111, 110, 115, 116>> \* "str.const"
M_i32_const == <<105, 51, 50, 46, 99, 111, 110, 115, 116>>   \* "i32.const"
M_f32_const == <<102, 51, 50, 46, 99, 111, 110, 115, 116>>   \* "f32.const"
M_bool_const == <<98, 111, 111, 108, 46, 99, 111, 110, 115, 116>> \* "bool.const"
M_mod == <<109, 111, 100>>                                   \* "mod"
M_mod_load == <<109, 111, 100, 46, 108, 111, 97, 100>>       \* "mod.load"
M_fn_get == <<102, 110, 46, 103, 101, 116>>                  \* "fn.get"
M_then == <<116, 104, 101, 110>>                             \* "then"
M_loop == <<108, 111, 111, 112>>                             \* "loop"
M_else == <<101, 108, 115, 101>>                             \* "else"
M_true == <<116, 114, 117, 101>>                             \* "true"
M_false == <<102, 97, 108, 115, 101>>                        \* "false"

\* the mnemonics without operands and their instructions
PlainMnemonics ==
    { <<<<100, 117, 109, 112>>, "Dump">>,                      \* "dump"
      <<<<104, 105>>, "Hi">>,                                  \* "hi"
      <<<<112, 111, 112>>, "Pop">>,                            \* "pop"
      <<<<100, 117, 112>>, "Dup">>,                            \* "dup"
      <<<<111, 112, 46, 97, 100, 100>>, "Add">>,               \* "op.add"
      <<<<111, 112, 46, 115, 117, 98>>, "Sub">>,               \* "op.sub"
      <<<<111, 112, 46, 109, 117, 108>>, "Mul">>,              \* "op.mul"
      <<<<111, 112, 46, 100, 105, 118>>, "Div">>,              \* "op.div"
      <<<<111, 112, 46, 105, 110, 99>>, "Inc">>,               \* "op.inc"
      <<<<111, 112, 46, 100, 101, 99>>, "Dec">>,               \* "op.dec"
      <<<<99, 109, 112, 46, 101, 113>>, "Eq">>,                \* "cmp.eq"
      <<<<99, 109, 112, 46, 110, 101>>, "Ne">>,                \* "cmp.ne"
      <<<<99, 109, 112, 46, 108, 116>>, "Lt">>,                \* "cmp.lt"
      <<<<99, 109, 112, 46, 108, 101>>, "Le">>,                \* "cmp.le"
      <<<<99, 109, 112, 46, 103, 116>>, "Gt">>,                \* "cmp.gt"
      <<<<99, 109, 112, 46, 103, 101>>, "Ge">>,                \* "cmp.ge"
      <<<<114, 101, 116, 117, 114, 110>>, "Return">>,          \* "return"
      <<<<98, 114, 101, 97, 107>>, "Break">>,                  \* "break"
      <<<<99, 111, 110, 116, 105, 110, 117, 101>>, "Continue">> } \* "continue"
\* the mnemonics with one u32 operand and their instructions
U32Mnemonics ==
    { <<<<108, 111, 99, 97, 108, 46, 103, 101, 116>>, "GetLocal">>,
      <<<<108, 111, 99, 97, 108, 46, 115, 101, 116>>, "SetLocal">>,
      <<<<108, 111, 99, 97, 108, 46, 114, 101, 115, 101, 114, 118, 101>>, "ReserveLocal">>,
      <<<<97, 108, 108, 111, 99>>, "Allocate">>,
      <<<<102, 105, 101, 108, 100, 46, 103, 101, 116>>, "GetField">>,
      <<<<102, 105, 101, 108, 100, 46, 115, 101, 116>>, "SetField">> }
MnemonicsOf(table) == {p[1] : p \in table}
OpOf(table, name) == (CHOOSE p \in table : p[1] = name)[2]

\* Result<T, ParseIntError> of str::parse: the digits 0-9, for the integer
\* types behind an optional sign.  The model's atoms have at most 9
\* digits, or so many that they fit no 32-bit type.
Parsed(ok, value) == [ok |-> ok, value |-> value]
IsDigits(s) == s # <<>> /\ \A i \in 1..Len(s) : s[i] \in 48..57
RECURSIVE DecimalValue(_)
DecimalValue(s) ==
    IF s = <<>> THEN 0 ELSE DecimalValue(SubSeq(s, 1, Len(s) - 1)) * 10 + (s[Len(s)] - 48)
Unsigned(s) == IF s # <<>> /\ s[1] = 43 THEN Tail(s) ELSE s
ParseUnsigned(s, max) ==
    LET d == Unsigned(s)
    IN  IF ~IsDigits(d) \/ Len(d) > 9 THEN Parsed(FALSE, 0)
        ELSE IF DecimalValue(d) > max THEN Parsed(FALSE, 0)
        ELSE Parsed(TRUE, DecimalValue(d))
\* value.parse::<u8>()
ParseU8(s) == ParseUnsigned(s, 255)
\* value.parse::<u32>()
ParseU32(s) == ParseUnsigned(s, 999999999)
\* value.parse::<i32>()
ParseI32(s) ==
    IF s # <<>> /\ s[1] = 45
    THEN LET d == Tail(s)
         IN  IF ~IsDigits(d) \/ Len(d) > 9 THEN Parsed(FALSE, 0)
             ELSE Parsed(TRUE, -DecimalValue(d))
    ELSE ParseUnsigned(s, 999999999)
\* value.parse::<f32>() on the decimal forms of the integral values the
\* model uses: a sign, up to 7 digits, and a fraction of zeros
ParseF32(s) ==
    LET signed == s # <<>> /\ s[1] \in {43, 45}
        body == IF signed THEN Tail(s) ELSE s
        dots == {i \in 1..Len(body) : body[i] = 46}
        whole == IF dots = {} THEN body
                 ELSE SubSeq(body, 1, (CHOOSE i \in dots : \A j \in dots : i <= j) - 1)
        frac == SubSeq(body, Len(whole) + 2, Len(body))
    IN  IF ~IsDigits(whole) \/ Len(whole) > 7 THEN Parsed(FALSE, 0)
        ELSE IF \E i \in 1..Len(frac) : frac[i] # 48 THEN Parsed(FALSE, 0)
        ELSE Parsed(TRUE, IF signed /\ s[1] = 45 THEN -DecimalValue(whole)
                          ELSE DecimalValue(whole))
\* value.parse::<bool>()
ParseBool(s) == Parsed(s \in {M_true, M_false}, s = M_true)

\* version.split(".")
RECURSIVE Split(_, _, _)
Split(s, i, part) ==
    IF i > Len(s) THEN <<part>>
    ELSE IF s[i] = 46 THEN <<part>> \o Split(s, i + 1, <<>>)
    ELSE Split(s, i + 1, Append(part, s[i]))

Lowered(ins) == [status |-> "Ok", ins |-> ins]
LowerErr == [status |-> "Err", ins |-> None]
LowerPanic == [status |-> "Panic", ins |-> None]
IsAtomAt(values, i) == i <= Len(values) /\ values[i].atom

\* "version": the first three components of the atom, each unwrapped
LowerVersion(values) ==
    IF ~IsAtomAt(values, 2) THEN LowerErr
    ELSE LET version == Split(values[2].text, 1, <<>>)
         IN  IF Len(version) < 3 THEN LowerPanic
             ELSE IF \E i \in 1..3 : ~ParseU8(version[i]).ok THEN LowerPanic
             ELSE Lowered(Version(ParseU8(version[1]).value, ParseU8(version[2]).value,
                                  ParseU8(version[3]).value))

\* "call": module, function and the unwrapped parameter count
LowerCall(values) ==
    IF ~IsAtomAt(values, 2) \/ ~IsAtomAt(values, 3) \/ ~IsAtomAt(values, 4) THEN LowerErr
    ELSE IF ~ParseU32(values[4].text).ok THEN LowerPanic
    ELSE Lowered(Call(values[2].text, values[3].text, ParseU32(values[4].text).value))

\* a mnemonic whose one operand is parsed and unwrapped
LowerOperand(values, number, ins) ==
    IF ~IsAtomAt(values, 2) THEN LowerErr
    ELSE IF ~number.ok THEN LowerPanic
    ELSE Lowered(ins)

\* "fn.get": the name, and an alias when an atom follows the name
LowerGetFunction(values) ==
    IF ~IsAtomAt(values, 2) THEN LowerErr
    ELSE IF ~IsAtomAt(values, 3) THEN Lowered(GetFunction(values[2].text))
    ELSE IF ~IsAtomAt(values, 4) THEN LowerErr
    ELSE Lowered(GetFunctionAs(values[2].text, values[4].text))

\* the text of the operand, if the operand is an atom
OperandText(values) == IF IsAtomAt(values, 2) THEN values[2].text ELSE <<>>

RECURSIVE from_sexpr(_), LowerAll(_, _, _), ListsOnly(_, _, _), ThenLoop(_, _, _)
\* the loop of "fn", "mod", "mod.load" and from_sexprs: lowers the
\* elements from index i on and stops at the first that fails
LowerAll(values, i, code) ==
    IF i > Len(values) THEN [status |-> "Ok", code |-> code]
    ELSE LET r == from_sexpr(values[i])
         IN  IF r.status # "Ok" THEN [status |-> r.status, code |-> <<>>]
             ELSE LowerAll(values, i + 1, Append(code, r.ins))

\* the loop of "loop" and of the else-arm: an atom is an error
ListsOnly(values, i, code) ==
    IF i > Len(values) THEN [status |-> "Ok", code |-> code]
    ELSE IF values[i].atom THEN [status |-> "Err", code |-> <<>>]
    ELSE LET r == from_sexpr(values[i])
         IN  IF r.status # "Ok" THEN [status |-> r.status, code |-> <<>>]
             ELSE ListsOnly(values, i + 1, Append(code, r.ins))

\* the first loop of "then": lists, up to the atom else
ThenLoop(values, i, then_block) ==
    IF i > Len(values) THEN Lowered(Then(then_block, <<>>))
    ELSE IF values[i].atom
    THEN IF values[i].text # M_else THEN LowerErr
         ELSE LET else_block == ListsOnly(values, i + 1, <<>>)
              IN  IF else_block.status # "Ok"
                  THEN [status |-> else_block.status, ins |-> None]
                  ELSE Lowered(Then(then_block, else_block.code))
    ELSE LET r == from_sexpr(values[i])
         IN  IF r.status # "Ok" THEN [status |-> r.status, ins |-> None]
             ELSE ThenLoop(values, i + 1, Append(then_block, r.ins))

\* a named body: "fn", "mod", "mod.load"
LowerNamed(values, op) ==
    IF ~IsAtomAt(values, 2) THEN LowerErr
    ELSE LET body == LowerAll(values, 3, <<>>)
         IN  IF body.status # "Ok" THEN [status |-> body.status, ins |-> None]
             ELSE Lowered(Ins(op, values[2].text, <<>>, FALSE, 0, 0, 0, FALSE,
                              body.code, <<>>))

\* "loop"
LowerLoop(values) ==
    LET block == ListsOnly(values, 2, <<>>)
    IN  IF block.status # "Ok" THEN [status |-> block.status, ins |-> None]
        ELSE Lowered(Loop(block.code))

from_sexpr(sexpr) ==
    IF sexpr.atom THEN LowerErr
    ELSE IF ~IsAtomAt(sexpr.list, 1) THEN LowerErr
    ELSE LET values == sexpr.list
             name == values[1].text
             operand == OperandText(values)
         IN  IF name = M_version THEN LowerVersion(values)
             ELSE IF name \in MnemonicsOf(PlainMnemonics)
             THEN Lowered(Plain(OpOf(PlainMnemonics, name)))
             ELSE IF name = M_fn THEN LowerNamed(values, "Fn")
             ELSE IF name = M_call THEN LowerCall(values)
             ELSE IF name = M_str_const
             THEN LowerOperand(values, Parsed(TRUE, 0), PushConstString(operand))
             ELSE IF name = M_i32_const
             THEN LowerOperand(values, ParseI32(operand),
                               PushConstInteger(ParseI32(operand).value))
             ELSE IF name = M_f32_const
             THEN LowerOperand(values, ParseF32(operand),
                               PushConstFloat(ParseF32(operand).value))
             ELSE IF name = M_bool_const
             THEN LowerOperand(values, ParseBool(operand),
                               PushConstBoolean(ParseBool(operand).value))
             ELSE IF name \in MnemonicsOf(U32Mnemonics)
             THEN LowerOperand(values, ParseU32(operand),
                               WithN(OpOf(U32Mnemonics, name), ParseU32(operand).value))
             ELSE IF name = M_mod THEN LowerNamed(values, "Module")
             ELSE IF name = M_mod_load THEN LowerNamed(values, "LoadModule")
             ELSE IF name = M_fn_get THEN LowerGetFunction(values)
             ELSE IF name = M_then THEN ThenLoop(values, 2, <<>>)
             ELSE IF name = M_loop THEN LowerLoop(values)
             ELSE LowerErr

\* Instruction::from_sexprs
from_sexprs(sexprs) == LowerAll(sexprs, 1, <<>>)

\* format!("{}", n) of a version number
RECURSIVE DecimalText(_)
DecimalText(n) ==
    IF n < 10 THEN <<48 + n>> ELSE DecimalText(n \div 10) \o <<48 + (n % 10)>>

\* a header that names the minor version first
Header_MinorFirst ==
    <<40>> \o M_version \o <<32>> \o DecimalText(HostMinor) \o <<46>>
        \o DecimalText(HostMajor) \o <<46>> \o DecimalText(HostPatch) \o <<41, 10>>

\* "(version {}.{}.{})\n" with the host's version
Header ==
    <<40>> \o M_version \o <<32>> \o DecimalText(HostMajor) \o <<46>>
        \o DecimalText(HostMinor) \o <<46>> \o DecimalText(HostPatch) \o <<41, 10>>

\* assemble(source): Ok(code), Err, or Panic
assemble(src) ==
    LET p == parse(Header \o src)
    IN  IF p.status = "Err" THEN [status |-> "Err", code |-> <<>>]
        ELSE from_sexprs(p.sexprs)

(***************************************************************************)
(* The assembler and its parser, on source texts.                          *)
(***************************************************************************)
\* the longest source text built from single characters
MaxSrcLen == 4
\* ( ) " ; space, newline and the letter a
SrcAlphabet == {40, 41, 34, 59, 32, 10, 97}
\*  test(fn add);Hello\nfield.get"Test"
T_test ==
    <<32, 116, 101, 115, 116, 40, 102, 110, 32, 97, 100, 100, 41, 59, 72,
      101, 108, 108, 111, 10, 102, 105, 101, 108, 100, 46, 103, 101, 116, 34,
      84, 101, 115, 116, 34>>
\* (hi)\t(dump)\r\n;c (pop)\n\t ( dup )
T_blanks ==
    <<40, 104, 105, 41, 9, 40, 100, 117, 109, 112, 41, 13, 10, 59, 99, 32,
      40, 112, 111, 112, 41, 10, 9, 32, 40, 32, 100, 117, 112, 32, 41>>
\* (str.const "")
T_str_empty ==
    <<40, 115, 116, 114, 46, 99, 111, 110, 115, 116, 32, 34, 34, 41>>
\* (str.const "(")
T_str_open ==
    <<40, 115, 116, 114, 46, 99, 111, 110, 115, 116, 32, 34, 40, 34, 41>>
\* (str.const ")")
T_str_close ==
    <<40, 115, 116, 114, 46, 99, 111, 110, 115, 116, 32, 34, 41, 34, 41>>
\* (str.const "a b;c")
T_str_mixed ==
    <<40, 115, 116, 114, 46, 99, 111, 110, 115, 116, 32, 34, 97, 32, 98, 59,
      99, 34, 41>>
\* (hi) (str.const "abc)
T_unterminated_in ==
    <<40, 104, 105, 41, 32, 40, 115, 116, 114, 46, 99, 111, 110, 115, 116,
      32, 34, 97, 98, 99, 41>>
\* (hi) (dump) "abc
T_unterminated_top ==
    <<40, 104, 105, 41, 32, 40, 100, 117, 109, 112, 41, 32, 34, 97, 98, 99>>
\* (mod m (fn f (i32.const 2) (i32.const 3) (op.add) (return)))
T_module ==
    <<40, 109, 111, 100, 32, 109, 32, 40, 102, 110, 32, 102, 32, 40, 105, 51,
      50, 46, 99, 111, 110, 115, 116, 32, 50, 41, 32, 40, 105, 51, 50, 46,
      99, 111, 110, 115, 116, 32, 51, 41, 32, 40, 111, 112, 46, 97, 100, 100,
      41, 32, 40, 114, 101, 116, 117, 114, 110, 41, 41, 41>>
\* (mod.load lib (fn.get len) (fn.get unit as u))
T_library ==
    <<40, 109, 111, 100, 46, 108, 111, 97, 100, 32, 108, 105, 98, 32, 40,
      102, 110, 46, 103, 101, 116, 32, 108, 101, 110, 41, 32, 40, 102, 110,
      46, 103, 101, 116, 32, 117, 110, 105, 116, 32, 97, 115, 32, 117, 41, 41>>
\* (mod m (fn g (bool.const true) (then (hi) else (loop (break) (continue)))))
T_control ==
    <<40, 109, 111, 100, 32, 109, 32, 40, 102, 110, 32, 103, 32, 40, 98, 111,
      111, 108, 46, 99, 111, 110, 115, 116, 32, 116, 114, 117, 101, 41, 32,
      40, 116, 104, 101, 110, 32, 40, 104, 105, 41, 32, 101, 108, 115, 101,
      32, 40, 108, 111, 111, 112, 32, 40, 98, 114, 101, 97, 107, 41, 32, 40,
      99, 111, 110, 116, 105, 110, 117, 101, 41, 41, 41, 41, 41>>
\* (mod m (fn f (f32.const 1.0) (str.const "s") (local.get 0)))\n(mod k)
T_two ==
    <<40, 109, 111, 100, 32, 109, 32, 40, 102, 110, 32, 102, 32, 40, 102, 51,
      50, 46, 99, 111, 110, 115, 116, 32, 49, 46, 48, 41, 32, 40, 115, 116,
      114, 46, 99, 111, 110, 115, 116, 32, 34, 115, 34, 41, 32, 40, 108, 111,
      99, 97, 108, 46, 103, 101, 116, 32, 48, 41, 41, 41, 10, 40, 109, 111,
      100, 32, 107, 41>>
\* (bogus)
T_unknown ==
    <<40, 98, 111, 103, 117, 115, 41>>
\* hi
T_atom ==
    <<104, 105>>
\* (mod m (fn f (hi))
T_unclosed ==
    <<40, 109, 111, 100, 32, 109, 32, 40, 102, 110, 32, 102, 32, 40, 104,
      105, 41, 41>>
\* (i32.const)
T_no_operand ==
    <<40, 105, 51, 50, 46, 99, 111, 110, 115, 116, 41>>
\* (i32.const (hi))
T_list_operand ==
    <<40, 105, 51, 50, 46, 99, 111, 110, 115, 116, 32, 40, 104, 105, 41, 41>>
\* (then (hi) other (dump))
T_then_atom ==
    <<40, 116, 104, 101, 110, 32, 40, 104, 105, 41, 32, 111, 116, 104, 101,
      114, 32, 40, 100, 117, 109, 112, 41, 41>>
\* (loop hi)
T_loop_atom ==
    <<40, 108, 111, 111, 112, 32, 104, 105, 41>>
\* (mod m (fn f (loop (then (local.get x)))))
T_nested_bad ==
    <<40, 109, 111, 100, 32, 109, 32, 40, 102, 110, 32, 102, 32, 40, 108,
      111, 111, 112, 32, 40, 116, 104, 101, 110, 32, 40, 108, 111, 99, 97,
      108, 46, 103, 101, 116, 32, 120, 41, 41, 41, 41, 41>>
\* (version 0.1.0)
T_version ==
    <<40, 118, 101, 114, 115, 105, 111, 110, 32, 48, 46, 49, 46, 48, 41>>
FixedTexts ==
    {T_test, T_blanks, T_str_empty, T_str_open, T_str_close,
     T_str_mixed, T_unterminated_in, T_unterminated_top, T_module, T_library,
     T_control, T_two, T_unknown, T_atom, T_unclosed,
     T_no_operand, T_list_operand, T_then_atom, T_loop_atom, T_nested_bad,
     T_version}

A_1 == <<49>>
A_m1 == <<45, 49>>
A_p1 == <<43, 49>>
A_x == <<120>>
A_1_0 == <<49, 46, 48>>
A_big == <<57, 57, 57, 57, 57, 57, 57, 57, 57, 57, 57>>
A_256 == <<50, 53, 54>>
V_3 == <<49, 46, 50, 46, 51>>
V_2 == <<49, 46, 50>>
V_abc == <<97, 46, 98, 46, 99>>
V_300 == <<49, 46, 50, 46, 51, 48, 48>>
V_4 == <<49, 46, 50, 46, 51, 46, 52>>
V_gap == <<49, 46, 46, 51>>
OperandAtoms == {A_1, A_m1, A_p1, A_x, A_1_0, A_big, A_256, M_true}
VersionAtoms == {V_3, V_2, V_abc, V_300, V_4, V_gap}

\* ( mnemonic operand )
OneOperand(mnemonic, operand) == <<40>> \o mnemonic \o <<32>> \o operand \o <<41>>
OperandMnemonics ==
    {M_i32_const, M_f32_const, M_bool_const, M_str_const} \cup MnemonicsOf(U32Mnemonics)
OperandTexts ==
    ({OneOperand(m, a) : m \in OperandMnemonics, a \in OperandAtoms}
        \ {OneOperand(M_f32_const, A_big)})
        \cup {OneOperand(M_version, v) : v \in VersionAtoms}
        \cup {OneOperand(M_call \o <<32, 109, 32, 102>>, a) : a \in OperandAtoms}

Sources == SeqsUpTo(SrcAlphabet, MaxSrcLen) \cup FixedTexts \cup OperandTexts

InitAsm ==
    /\ program = <<>>
    /\ phase = "created"
    /\ modules = EmptyMap
    /\ dymodules = EmptyMap
    /\ stack = <<>>
    /\ local_vars = <<>>
    /\ call_break = FALSE
    /\ call_continue = FALSE
    /\ call_return = FALSE
    /\ heap = <<>>
    /\ frames = <<>>
    /\ trace = <<>>
    /\ entry = [module |-> <<>>, name |-> <<>>, args |-> <<>>]
    /\ CodecIdle
    /\ parser_source \in Sources
    /\ parser_position = 0
    /\ tokens = <<>>
    /\ parsed = [status |-> "None", sexprs |-> <<>>]
    /\ assembled = [status |-> "None", code |-> <<>>]
    /\ aphase = "new"

NotAsm ==
    /\ UNCHANGED loadvars /\ UNCHANGED vmvars /\ UNCHANGED codecvars /\ UNCHANGED phase
    /\ UNCHANGED parser_source

\* one call of parser.next_token(), as in the test of parser.rs
NextToken ==
    /\ aphase \in {"new", "lexing"}
    /\ LET t == next_token(parser_source, parser_position)
       IN  /\ tokens' = Append(tokens, [some |-> t.some, token |-> t.token])
           /\ parser_position' = t.position
           /\ aphase' = IF t.some THEN "lexing" ELSE "end"
    /\ UNCHANGED <<parsed, assembled>>
    /\ NotAsm

\* let parsed = Parser::new(source).parse()
Parse ==
    /\ aphase = "new"
    /\ parsed' = parse(parser_source)
    /\ aphase' = "parsed"
    /\ UNCHANGED <<parser_position, tokens, assembled>>
    /\ NotAsm

\* let assembled = assemble(source)
Assemble ==
    /\ aphase = "new"
    /\ assembled' = assemble(parser_source)
    /\ aphase' = "assembled"
    /\ UNCHANGED <<parser_position, tokens, parsed>>
    /\ NotAsm

NextAsm ==
    \/ NextToken
    \/ Parse
    \/ Assemble

SpecAsm == InitAsm /\ [][NextAsm]_vars

(***************************************************************************)
(* Properties.                                                             *)
(***************************************************************************)
Called(name) == entry.module = S_m /\ entry.name = name
Finished(name) == phase = "done" /\ Called(name)
TraceOps == {trace[i].ins : i \in 1..Len(trace)}
LoadSucceeded == phase \notin {"created", "loadError", "loadPanic"}

\* a program whose header equals the host version and whose other
\* instructions are Module instructions with only Fn children
WellFormedStatic(code) ==
    /\ Len(code) > 0
    /\ code[1] = Version(HostMajor, HostMinor, HostPatch)
    /\ \A i \in 2..Len(code) :
         /\ code[i].op = "Module"
         /\ \A j \in 1..Len(code[i].code) : code[i].code[j].op = "Fn"

HeaderMismatch(code) ==
    \/ Len(code) = 0
    \/ code[1].op # "Version"
    \/ code[1].n # HostMajor
    \/ code[1].n2 # HostMinor
    \/ code[1].n3 # HostPatch

\* C2 (version gate): once load_modules has run, a program that is empty,
\* does not start with Version, or differs from the host version in major,
\* minor or patch has been refused with an error and registered nothing,
\* and a program of the matching Version followed only by well-formed
\* Module instructions has been loaded.
C2_VersionGate ==
    phase # "created" =>
        /\ HeaderMismatch(program) =>
             (phase = "loadError" /\ modules = EmptyMap /\ dymodules = EmptyMap)
        /\ WellFormedStatic(program) => LoadSucceeded

\* C2 witness: a program refused although only its patch number differs
C2_Witness ==
    /\ phase = "loadError"
    /\ program = <<Version(HostMajor, HostMinor, HostPatch + 1), Module(S_m, <<Fn_f>>)>>

\* C3 (end-to-end load and call): a matching Version followed by modules of
\* Fn children loads and registers every function under module.function,
\* and calling m.f = (i32.const 2)(i32.const 3)(op.add)(return) with no
\* arguments on the empty stack ends with exactly Integer(5) on the stack.
C3_LoadAndCall ==
    /\ (phase # "created" /\ WellFormedStatic(program)) =>
         /\ LoadSucceeded
         /\ \A i \in 2..Len(program) :
              /\ program[i].name \in DOMAIN modules
              /\ \A j \in 1..Len(program[i].code) :
                   program[i].code[j].name \in DOMAIN modules[program[i].name].functions
    /\ (Finished(S_f) /\ entry.args = <<>>) => stack = <<Integer(5)>>

\* C3 witness: m.f of the scenario's program has returned
C3_Witness ==
    /\ program = <<Version(HostMajor, HostMinor, HostPatch), Module(S_m, <<Fn_f>>)>>
    /\ Finished(S_f)
    /\ entry.args = <<>>
    /\ Len(trace) = 4

\* C4 (return propagation): after a Return no later instruction of the same
\* function activation executes: a later instruction at the same call depth
\* belongs to a new activation, entered after the caller ran in between.
C4_ReturnEndsFunction ==
    \A i \in 1..Len(trace) :
        trace[i].ins.op = "Return" =>
            \A j \in (i + 1)..Len(trace) :
                trace[j].depth = trace[i].depth =>
                    \E k \in (i + 1)..(j - 1) : trace[k].depth < trace[i].depth

\* C5 (break scope with conditionals): in
\* (bool.const true)(then (loop (break)) (i32.const 1))(i32.const 2)
\* the break ends only the loop: the instruction after the loop in the arm
\* and the instruction after the Then both execute before the function ends.
C5_BreakEndsOnlyLoop ==
    Finished(S_brk) =>
        /\ PushConstInteger(1) \in TraceOps
        /\ PushConstInteger(2) \in TraceOps
        /\ stack = <<Integer(1), Integer(2)>>

\* C6 (counter loop): when the counter loop has ended and the function goes
\* on with the instruction after it, locals[0] is Integer 10.
C6_CounterLoop ==
    (Called(S_count) /\ phase = "running" /\ Len(frames) = 1 /\ frames[1].pc = 5) =>
        local_vars[1][1] = Integer(10)

\* C7 (comparison operand order): pushing x, then y, then cmp.lt / cmp.le /
\* cmp.gt / cmp.ge leaves Boolean(x < y), (x <= y), (x > y), (x >= y).
C7_ComparisonOrder ==
    (phase = "done" /\ entry.module = S_m /\ Len(entry.args) = 2
        /\ Numeric(entry.args[1], entry.args[2])) =>
        LET x == entry.args[1].n
            y == entry.args[2].n
        IN  /\ entry.name = S_lt => stack = <<Boolean(x < y)>>
            /\ entry.name = S_le => stack = <<Boolean(x <= y)>>
            /\ entry.name = S_gt => stack = <<Boolean(x > y)>>
            /\ entry.name = S_ge => stack = <<Boolean(x >= y)>>

\* a Sub about to run on two operands of one numeric type
SubReady ==
    /\ CanStep /\ Cur.op = "Sub" /\ Len(stack) >= 2
    /\ Numeric(Last(stack), stack[Len(stack) - 1])

\* C8 (subtraction operand order): Sub with top = a and second = b replaces
\* the two operands by the single result b - a of their type, and
\* (i32.const 10)(i32.const 3)(op.sub) leaves Integer(7).
C8_SubOrder ==
    /\ [](Finished(S_sub) => stack = <<Integer(7)>>)
    /\ [][SubReady =>
            /\ Len(stack') = Len(stack) - 1
            /\ SubSeq(stack', 1, Len(stack) - 2) = SubSeq(stack, 1, Len(stack) - 2)
            /\ Last(stack').kind = Last(stack).kind
            /\ Last(stack').n = stack[Len(stack) - 1].n - Last(stack).n]_vars

\* C8 witness: the scenario has run its Sub and holds the result
C8_Witness ==
    /\ Called(S_sub)
    /\ Len(trace) = 3
    /\ trace[3].ins = Sub
    /\ stack = <<Integer(7)>>

\* C9 (string concatenation order): (str.const "foo")(str.const "bar")
\* (op.add) leaves String("foobar").
C9_ConcatOrder ==
    Finished(S_cat) => stack = <<String(S_foo \o S_bar)>>

\* a Call about to run that resolves to a Code function
CallReady ==
    /\ CanStep /\ Cur.op = "Call" /\ Cur.n <= Len(stack)
    /\ CallTarget(Cur.name, Cur.name2) = "code"

\* C10 (call argument passing): Call MOD FN N removes exactly the top N
\* values, leaves the values below untouched, and pushes one locals frame
\* that holds those N values in push order.
C10_CallArguments ==
    [][CallReady =>
          /\ stack' = SubSeq(stack, 1, Len(stack) - Cur.n)
          /\ Len(local_vars') = Len(local_vars) + 1
          /\ SubSeq(local_vars', 1, Len(local_vars)) = local_vars
          /\ Len(Last(local_vars')) = Cur.n
          /\ \A i \in 1..Cur.n :
               Last(local_vars')[i] = stack[Len(stack) - Cur.n + i]]_vars

\* C10 witness: the callee of call2 starts with the two arguments in push
\* order in its frame and the value pushed before them still on the stack
C10_Witness ==
    /\ Called(S_call2)
    /\ Len(frames) = 2
    /\ Top.kind = "call" /\ Top.pc = 1
    /\ Len(local_vars) = 2
    /\ Last(local_vars) = <<Integer(0), Integer(1)>>
    /\ stack = <<Integer(7)>>


\* C1 (round trip): decoding the encoding of a Code gives Ok with a Code
\* structurally identical to the one encoded: the same length, variants,
\* order, operand values and nested bodies.
C1_RoundTrip ==
    cphase = "decoded" => decoded = Ok(tree)


\* the caller is just behind a Call instruction: the call has returned
JustReturned ==
    /\ phase = "running"
    /\ frames # <<>>
    /\ Top.pc > 1
    /\ Top.code[Top.pc - 1].op = "Call"
\* the last instruction executed at call depth d
LastAt(d) ==
    CHOOSE k \in 1..Len(trace) :
        /\ trace[k].depth = d
        /\ \A j \in (k + 1)..Len(trace) : trace[j].depth # d
CallFrames == {i \in 1..Len(frames) : frames[i].kind = "call"}

\* C11 (locals scoping): there is exactly one locals frame per active call
\* of a Code function; when a call has returned, whichever way the callee
\* ended and whatever it and its own callees wrote or reserved, the locals
\* frames are exactly the ones the Call instruction started with, in depth
\* and in contents; when the host's call has returned no frame is left.
C11_LocalsScoping ==
    /\ phase = "running" => Len(local_vars) = Cardinality(CallFrames)
    /\ JustReturned =>
         /\ trace[LastAt(Len(local_vars))].ins.op = "Call"
         /\ local_vars = trace[LastAt(Len(local_vars))].locals
    /\ phase = "done" => local_vars = <<>>

\* C11 witness: scope is behind its last call, whose callee swapped its
\* own locals; the caller's frame still holds what it held before
C11_Witness ==
    /\ Called(S_scope)
    /\ JustReturned
    /\ Len(frames) = 1
    /\ Top.pc = 10
    /\ local_vars = <<<<Null, Integer(5)>>>>
    /\ \E i \in 1..Len(trace) : trace[i].ins = SetLocal(2) /\ trace[i].depth = 3
    /\ \E i \in 1..Len(trace) : trace[i].ins = SetLocal(1) /\ trace[i].depth = 2


\* the callee's execute is about to return to the Call handler of a caller
CalleeReturns == Exiting /\ Top.kind = "call" /\ Len(frames) > 1

\* C12 (call isolates control flow): right behind a Call instruction the
\* three flags are false in the caller, and when the callee returns, with
\* whatever flag it set, the caller's sequence goes on with the instruction
\* that follows the Call.
C12_CallIsolatesFlags ==
    /\ [](JustReturned => (~call_return /\ ~call_break /\ ~call_continue))
    /\ [][CalleeReturns =>
            /\ frames' = [Front(frames) EXCEPT ![Len(frames) - 1].pc = @ + 1]
            /\ frames[Len(frames) - 1].code[frames[Len(frames) - 1].pc].op = "Call"
            /\ phase' = "running"]_vars

\* C12 witness: call2 is right behind its Call, the callee ended by Break
C12_Witness ==
    /\ Called(S_call2)
    /\ JustReturned
    /\ Len(frames) = 1
    /\ Last(trace).ins = Break
    /\ Top.code[Top.pc] = Hi
    /\ ~AnyFlag


\* a GetField about to read field Cur.n of the object its top handle denotes
GetFieldReady ==
    /\ CanStep /\ Cur.op = "GetField" /\ stack # <<>>
    /\ Last(stack).kind = "Object"
    /\ Cur.n < Len(heap[Last(stack).n].fields)
\* the executed SetField instructions that wrote field i of object h
WritesTo(h, i) ==
    {k \in 1..Len(trace) :
        /\ trace[k].ins = SetField(i)
        /\ Len(trace[k].stack) >= 2
        /\ trace[k].stack[Len(trace[k].stack) - 1] = Object(h)}
\* the value of the last of them, Null for a field never written
LastWritten(h, i) ==
    IF WritesTo(h, i) = {} THEN Null
    ELSE LET k == CHOOSE w \in WritesTo(h, i) : \A x \in WritesTo(h, i) : x <= w
         IN  Last(trace[k].stack)

\* C13 (field aliasing): a field.get i through any handle yields the value
\* of the last field.set i made through any handle to the same object; the
\* copies made by dup, local.set / local.get and a store into a field are
\* handles to the same object: after (alloc 2)(dup)(i32.const 7)
\* (field.set 0) both handles on the stack read Integer 7 at field 0, and
\* so do a copy kept in a local and a copy stored in another object, until
\* the field is written again.
C13_FieldAliasing ==
    /\ [][GetFieldReady =>
            stack' = Append(Front(stack), LastWritten(Last(stack).n, Cur.n))]_vars
    /\ []((Called(S_obj) /\ phase = "running" /\ Len(trace) = 4) =>
            /\ Len(stack) = 2
            /\ stack[1] = stack[2]
            /\ stack[1].kind = "Object"
            /\ LastWritten(stack[1].n, 0) = Integer(7)
            /\ heap[stack[1].n].fields[1] = Integer(7))
    /\ [](Finished(S_obj) => (Len(stack) = 2 /\ stack[2] = Integer(7)))
    /\ [](Finished(S_alias) =>
            stack = <<Integer(7), Integer(7), Integer(7), Integer(8)>>)

\* C13 witness: alias has read the field through all its handles
C13_Witness ==
    /\ Finished(S_alias)
    /\ Len(trace) = 20
    /\ stack = <<Integer(7), Integer(7), Integer(7), Integer(8)>>
    /\ Len(heap) = 2


\* a SetField about to write field Cur.n of the object under the value
SetFieldReady ==
    /\ CanStep /\ Cur.op = "SetField" /\ Len(stack) >= 2
    /\ stack[Len(stack) - 1].kind = "Object"
    /\ Cur.n < Len(heap[stack[Len(stack) - 1].n].fields)

\* C14 (field access stack effect): field.set I pops only the value and
\* leaves the object handle on top; field.get I pops the handle and pushes
\* the value of field I; (alloc 3)(dup)(i32.const 42)(field.set 1)
\* (field.get 1) ends with Integer(42) on top of one handle to the object.
C14_FieldStackEffect ==
    /\ [][SetFieldReady =>
            /\ stack' = Front(stack)
            /\ Last(stack').kind = "Object"
            /\ heap'[Last(stack').n].fields[Cur.n + 1] = Last(stack)]_vars
    /\ [][GetFieldReady =>
            /\ Len(stack') = Len(stack)
            /\ Front(stack') = Front(stack)
            /\ Last(stack') = heap[Last(stack).n].fields[Cur.n + 1]]_vars
    /\ [](Finished(S_obj2) =>
            /\ Len(stack) = 2
            /\ stack[2] = Integer(42)
            /\ stack[1].kind = "Object"
            /\ heap[stack[1].n].fields = <<Null, Integer(42), Null>>)

\* C14 witness: obj2 has run its field.set and its field.get
C14_Witness ==
    /\ Finished(S_obj2)
    /\ Len(trace) = 5
    /\ trace[4].ins = SetField(1)
    /\ trace[5].ins = GetField(1)
    /\ stack = <<Object(1), Integer(42)>>

(***************************************************************************)
(* Operand-stack discipline.                                               *)
(***************************************************************************)
ConstOps == {"PushConstString", "PushConstInteger", "PushConstFloat", "PushConstBoolean"}
\* the straight-line instructions
StraightOps ==
    ConstOps \cup BinaryOps
    \cup {"Allocate", "Dup", "GetLocal", "Pop", "SetLocal", "SetField", "GetField",
          "Inc", "Dec", "ReserveLocal", "Dump", "Hi"}
\* the net change of the stack depth stated for each of them
StraightEffect(op) ==
    CASE op \in ConstOps \cup {"Allocate", "Dup", "GetLocal"} -> 1
      [] op \in BinaryOps \cup {"Pop", "SetLocal", "SetField"} -> -1
      [] OTHER -> 0

\* the straight-line instructions that ran last in the current activation,
\* back to entry k of the history: the depth now is the depth the run
\* started with plus the sum of its effects
RECURSIVE EffectsAddUp(_, _)
EffectsAddUp(k, sum) ==
    IF k = 0 THEN TRUE
    ELSE IF trace[k].ins.op \notin StraightOps \/ trace[k].depth # Len(local_vars) THEN TRUE
    ELSE LET total == sum + StraightEffect(trace[k].ins.op)
         IN  /\ Len(stack) = Len(trace[k].stack) + total
             /\ EffectsAddUp(k - 1, total)

\* C15: after a straight-line sequence that executed without error the
\* stack depth is the initial depth plus the sum of the per-instruction
\* effects (+1 constant push, alloc, dup, local.get; -1 pop, local.set,
\* field.set, binary operator; 0 field.get, inc, dec, local.reserve, dump, hi)
C15_StackDiscipline ==
    phase \in {"running", "done"} => EffectsAddUp(Len(trace), 0)

\* the operands an instruction takes from the stack
Consumes(ins) ==
    CASE ins.op \in {"Pop", "Dup", "Then", "Inc", "Dec", "GetField", "SetLocal"} -> 1
      [] ins.op \in BinaryOps \cup {"SetField"} -> 2
      [] ins.op = "Call" -> ins.n
      [] OTHER -> 0
Underflows == CanStep /\ Len(stack) < Consumes(Cur)

\* C16: an instruction that finds fewer operands on the stack than it
\* consumes aborts the run; it never completes
C16_UnderflowAborts ==
    [][Underflows => phase' = "panic"]_vars

(***************************************************************************)
(* Runtime type rules.                                                     *)
(***************************************************************************)
\* the operand type combinations stated for a binary operator
Accepts(op, a, b) ==
    CASE op = "Add" -> \E k \in {"Integer", "Float", "String"} : SameKind(a, b, k)
      [] op \in {"Eq", "Ne"} ->
            \E k \in {"Integer", "Float", "String", "Boolean"} : SameKind(a, b, k)
      [] OTHER -> \E k \in {"Integer", "Float"} : SameKind(a, b, k)
\* the type of the result
ResultKind(op, a) ==
    IF op \in {"Eq", "Ne", "Lt", "Le", "Gt", "Ge"} THEN "Boolean" ELSE a.kind
BinaryReady == CanStep /\ Cur.op \in BinaryOps /\ Len(stack) >= 2
UnaryReady == CanStep /\ Cur.op \in {"Inc", "Dec"} /\ stack # <<>>
\* an Integer division whose divisor is 0: an error of its own
IntDivByZero ==
    /\ Cur.op = "Div"
    /\ SameKind(Last(stack), stack[Len(stack) - 1], "Integer")
    /\ stack[Len(stack) - 1].n = 0

\* C17: Add accepts Integer/Integer, Float/Float and String/String; Sub,
\* Mul, Div, Lt, Le, Gt, Ge accept Integer/Integer and Float/Float; Eq and
\* Ne accept two Integers, Floats, Strings or Booleans; Inc and Dec accept
\* an Integer or a Float.  On these operands the operator pushes its
\* result; on any other operands it aborts the run with the operands
\* popped and no result pushed.
C17_TypeRules ==
    /\ [][BinaryReady =>
            LET a == Last(stack)
                b == stack[Len(stack) - 1]
                rest == SubSeq(stack, 1, Len(stack) - 2)
            IN  IF Accepts(Cur.op, a, b) /\ ~IntDivByZero
                THEN /\ phase' = "running"
                     /\ Len(stack') = Len(rest) + 1
                     /\ Front(stack') = rest
                     /\ Last(stack').kind = ResultKind(Cur.op, a)
                ELSE /\ phase' = "panic"
                     /\ stack' = rest]_vars
    /\ [][UnaryReady =>
            IF Last(stack).kind \in {"Integer", "Float"}
            THEN /\ phase' = "running"
                 /\ Len(stack') = Len(stack)
                 /\ Front(stack') = Front(stack)
                 /\ Last(stack').kind = Last(stack).kind
            ELSE /\ phase' = "panic"
                 /\ stack' = Front(stack)]_vars

\* cmp.lt on an Integer and a Float of the same value has aborted the run
C17_Witness ==
    /\ phase = "panic" /\ Called(S_lt)
    /\ entry.args = <<Integer(1), Float(1)>>
    /\ trace[Len(trace)].ins = Lt
    /\ trace[Len(trace)].stack = <<Integer(1), Float(1)>>
    /\ stack = <<>>

(***************************************************************************)
(* Conditional selection.                                                  *)
(***************************************************************************)
ThenReady == CanStep /\ Cur.op = "Then" /\ stack # <<>>
\* the instructions executed so far, in order
TraceIns == [i \in 1..Len(trace) |-> trace[i].ins]

\* C18: Then pops one value, which must be a Boolean (anything else aborts
\* the run); on true it executes the then-arm and none of the else-arm, on
\* false the else-arm and none of the then-arm, and an absent else-arm
\* executes nothing.  (bool.const true)(then (i32.const 1)(return) else
\* (i32.const 2)(return)) pushes Integer(1) and never Integer(2).
C18_ConditionalSelection ==
    /\ [][ThenReady =>
            IF Last(stack).kind # "Boolean"
            THEN phase' = "panic" /\ frames' = frames
            ELSE /\ phase' = "running"
                 /\ stack' = Front(stack)
                 /\ frames' = Append(frames,
                        [code |-> IF Last(stack).b THEN Cur.code ELSE Cur.code2,
                         pc |-> 1, kind |-> "then"])]_vars
    /\ [](Called(S_sel) =>
            /\ PushConstInteger(2) \notin TraceOps
            /\ \A i \in 1..Len(stack) : stack[i] # Integer(2)
            /\ phase = "done" =>
                  /\ stack = <<Integer(1)>>
                  /\ TraceIns = <<PushConstBoolean(TRUE), Fn_sel.code[2],
                                  PushConstInteger(1), Return>>)
    /\ []((Finished(S_pick) /\ entry.args = <<Boolean(TRUE)>>) =>
            /\ stack = <<Integer(1)>>
            /\ TraceIns = <<GetLocal(0), Fn_pick.code[2], PushConstInteger(1), Hi>>)
    /\ []((Finished(S_pick) /\ entry.args = <<Boolean(FALSE)>>) =>
            /\ stack = <<Integer(2)>>
            /\ TraceIns = <<GetLocal(0), Fn_pick.code[2], PushConstInteger(2), Hi>>)
    /\ []((Finished(S_then1) /\ entry.args = <<Boolean(FALSE)>>) =>
            /\ stack = <<>>
            /\ TraceIns = <<GetLocal(0), Fn_then1.code[2], Hi>>)
    /\ []((Called(S_pick) /\ Len(entry.args) = 1 /\ entry.args[1].kind # "Boolean"
             /\ phase # "running") =>
            /\ phase = "panic"
            /\ TraceIns = <<GetLocal(0), Fn_pick.code[2]>>)

\* the scenario has returned from its then-arm
C18_Witness ==
    /\ Finished(S_sel)
    /\ stack = <<Integer(1)>>
    /\ Len(trace) = 4
    /\ trace[2].ins.op = "Then" /\ trace[2].stack = <<Boolean(TRUE)>>
    /\ trace[3].ins = PushConstInteger(1)

(***************************************************************************)
(* Call resolution.                                                        *)
(***************************************************************************)
\* a Call instruction about to run with its arguments on the stack
CallStep == CanStep /\ Cur.op = "Call" /\ Cur.n <= Len(stack)
\* the host's call has been made in this step
HostStep ==
    /\ phase = "loaded" /\ phase' # "loaded"
    /\ IF frames' = <<>> THEN TRUE ELSE frames'[1].kind = "call"
IsStatic(module) == module \in DOMAIN modules
IsDynamic(module) == module \notin DOMAIN modules /\ module \in DOMAIN dymodules

\* what a call of module.name with args above rest has to do
Resolves(module, name, args, rest, next) ==
    IF IsStatic(module) /\ name \in DOMAIN modules[module].functions
    THEN /\ phase' = "running"
         /\ local_vars' = Append(local_vars, args)
         /\ frames' = Append(frames, [code |-> modules[module].functions[name],
                                      pc |-> 1, kind |-> "call"])
         /\ stack' = rest
    ELSE IF IsDynamic(module) /\ name \in DOMAIN dymodules[module].fns
    THEN /\ phase' = next
         /\ local_vars' = local_vars
         /\ \/ /\ dymodules[module].fns[name] = "len"
               /\ stack' = Append(rest, Integer(Len(args)))
            \/ /\ dymodules[module].fns[name] = "unit"
               /\ stack' = rest
    ELSE /\ phase' = "panic"
         /\ local_vars' = local_vars
         /\ frames' = frames

\* C19: a call of MOD.FN looks MOD up among the static modules first and
\* among the dynamic modules only if no static module has that name; when
\* neither has it, or the selected module has no function FN, the call is
\* fatal and leaves no locals frame pushed; a native function is invoked
\* with the argument vector and its result is pushed exactly when it
\* returns a value.
C19_CallResolution ==
    /\ [][CallStep =>
            Resolves(Cur.name, Cur.name2, SplitOffArgs(stack, Cur.n),
                     SplitOffRest(stack, Cur.n), "running")]_vars
    /\ [][HostStep =>
            Resolves(entry'.module, entry'.name, entry'.args, stack, "done")]_vars

\* lib names a static and a dynamic module: lib.f has run as code and
\* lib.len, which only the dynamic module has, has aborted the run
C19_Witness ==
    /\ phase = "panic" /\ Called(S_shadow)
    /\ S_lib \in DOMAIN modules /\ S_lib \in DOMAIN dymodules
    /\ S_len \in DOMAIN dymodules[S_lib].fns
    /\ trace[1].ins = Call(S_lib, S_f, 0)
    /\ trace[Len(trace)].ins = Call(S_lib, S_len, 1)
    /\ local_vars = <<entry.args>>

(***************************************************************************)
(* Loader scope check.                                                     *)
(***************************************************************************)
\* a top-level instruction the loader accepts: a Module, or a LoadModule
\* whose body holds GetFunction instructions only
InScope(ins) ==
    \/ ins.op = "Module"
    \/ /\ ins.op = "LoadModule"
       /\ \A j \in 1..Len(ins.code) : ins.code[j].op = "GetFunction"
\* the Module instructions before position i hold functions only, so that
\* the loader gets as far as position i
ReachesTopLevel(i) ==
    \A j \in 2..(i - 1) :
        program[j].op = "Module" =>
            \A k \in 1..Len(program[j].code) : program[j].code[k].op = "Fn"
Loaded == phase # "created"

\* C20: after the Version, load_modules returns an error and no modules as
\* soon as a top-level instruction is neither Module nor LoadModule, and
\* as soon as a LoadModule body contains an instruction that is not
\* GetFunction; what follows that instruction is not looked at.
C20_LoaderScope ==
    (/\ Loaded /\ program # <<>> /\ VersionMatches(program[1])
     /\ \E i \in 2..Len(program) : ~InScope(program[i]) /\ ReachesTopLevel(i))
        => /\ phase = "loadError"
           /\ modules = EmptyMap
           /\ dymodules = EmptyMap

\* a program with a valid header, a library whose body holds a debug.hi,
\* and a module that could not be converted, has been refused
C20_Witness ==
    /\ phase = "loadError" /\ Len(program) = 3
    /\ VersionMatches(program[1])
    /\ program[2] = LoadModule(S_lib, <<Hi, GetFunction(S_foo)>>)
    /\ program[3] = Module(S_m, <<Hi>>)
    /\ modules = EmptyMap /\ dymodules = EmptyMap

(***************************************************************************)
(* Load errors.                                                            *)
(***************************************************************************)
\* a static Module whose body holds an instruction other than Fn
BadModuleAt(i) ==
    /\ i \in 2..Len(program)
    /\ program[i].op = "Module"
    /\ \E k \in 1..Len(program[i].code) : program[i].code[k].op # "Fn"

\* C21: a static Module whose body contains an instruction other than Fn
\* makes loading fail with an error returned to the caller; the loader
\* does not abort the host
C21_LoadErrorsReturned ==
    (/\ Loaded /\ program # <<>> /\ VersionMatches(program[1])
     /\ \E i \in 2..Len(program) : BadModuleAt(i))
        => phase = "loadError"

(***************************************************************************)
(* Tokenization.                                                           *)
(***************************************************************************)
\* character i lies in a comment: behind a ';' with no newline in between
InComment(text, i) ==
    \E j \in 1..i : text[j] = 59 /\ \A k \in j..i : text[k] # 10
\* character i yields no part of an atom
Delimits(text, i) == InComment(text, i) \/ text[i] \in Whitespace \cup Parens
\* the characters at which a token starts: a parenthesis, or the first
\* character of a maximal run of other characters
TokenStarts(text) ==
    {i \in 1..Len(text) :
        /\ ~InComment(text, i)
        /\ \/ text[i] \in Parens
           \/ ~Delimits(text, i) /\ (i = 1 \/ Delimits(text, i - 1))}
\* the token that starts at character i
TokenAt(text, i) ==
    IF text[i] \in Parens THEN <<text[i]>>
    ELSE SubSeq(text, i,
                CHOOSE e \in i..Len(text) :
                    /\ \A k \in i..e : ~Delimits(text, k)
                    /\ e = Len(text) \/ Delimits(text, e + 1))
\* the tokens of a text without quotes, in source order
ExpectedTokens(text) ==
    LET starts == TokenStarts(text)
        nth(k) == CHOOSE i \in starts : Cardinality({j \in starts : j < i}) = k - 1
    IN  [k \in 1..Cardinality(starts) |-> TokenAt(text, nth(k))]

QuoteFree(text) == \A i \in 1..Len(text) : text[i] # 34
Lexed == aphase \in {"lexing", "end"}
\* the texts of the tokens returned so far
TokenTexts == [i \in 1..Len(tokens) |-> tokens[i].token]

\* C27: repeated next_token calls yield the tokens of the source in source
\* order: each parenthesis as its own token, each maximal run of characters
\* other than whitespace, parentheses, '"' and ';' as one atom, and nothing
\* for whitespace and comments; a delimiter next to an atom ends the atom
\* and is processed itself.  The source of the parser's own test yields
\* test ( fn add ) field.get Test.
C27_Tokenization ==
    /\ (Lexed /\ QuoteFree(parser_source)) =>
          LET expected == ExpectedTokens(parser_source)
          IN  /\ \A i \in 1..(Len(tokens) - 1) : tokens[i].some
              /\ aphase = "lexing" =>
                    /\ tokens[Len(tokens)].some
                    /\ Len(tokens) <= Len(expected)
                    /\ TokenTexts = SubSeq(expected, 1, Len(tokens))
              /\ aphase = "end" =>
                    /\ ~tokens[Len(tokens)].some
                    /\ SubSeq(TokenTexts, 1, Len(tokens) - 1) = expected
    /\ (parser_source = T_test /\ aphase = "end") =>
          /\ Len(tokens) = 8
          /\ SubSeq(TokenTexts, 1, 7) =
                <<<<116, 101, 115, 116>>, <<40>>, M_fn, <<97, 100, 100>>, <<41>>,
                  <<102, 105, 101, 108, 100, 46, 103, 101, 116>>, <<84, 101, 115, 116>>>>

\* the text with tabs, a carriage return and a comment has been read to
\* its end
C27_Witness ==
    /\ aphase = "end" /\ parser_source = T_blanks
    /\ Len(tokens) = 10
    /\ tokens[8].token = <<100, 117, 112>>
    /\ parser_position = Len(T_blanks)

(***************************************************************************)
(* Parse errors and string literals.                                       *)
(***************************************************************************)
\* C22: assemble returns Ok(tree) or Err(message) for every source text; an
\* unexpected token, an unknown mnemonic and a malformed operand yield Err
\* and never abort the caller
C22_ParseErrorsReturned ==
    aphase = "assembled" => assembled.status \in {"Ok", "Err"}

\* a text without comments whose last quote opens a literal that is never
\* closed
Unterminated(text) ==
    /\ \A i \in 1..Len(text) : text[i] # 59
    /\ Cardinality({i \in 1..Len(text) : text[i] = 34}) % 2 = 1

\* C23: for every source with a string literal whose closing quote is
\* missing the parser returns Err, inside a list and at top level after
\* complete lists; it never returns Ok with the preceding lists
C23_UnterminatedRejected ==
    (aphase = "parsed" /\ Unterminated(parser_source)) => parsed.status = "Err"

\* ( str.const "content" ) and what it has to parse to
StrConstText(content) == <<40>> \o M_str_const \o <<32, 34>> \o content \o <<34, 41>>
StrConstParsed(content) ==
    [status |-> "Ok", sexprs |-> <<List(<<Atom(M_str_const), Atom(content)>>)>>]
\* the literal contents tried: empty, "(", ")", "a b;c"
LiteralContents == {<<>>, <<40>>, <<41>>, <<97, 32, 98, 59, 99>>}

\* C28: a terminated string literal produces one atom whose text is the
\* characters between the quotes, also when that text is empty or holds
\* whitespace, ';', '(' or ')'; (str.const "") and (str.const "(") each
\* parse to a list of two atoms
C28_StringLiteralsAreAtoms ==
    \A content \in LiteralContents :
        (aphase = "parsed" /\ parser_source = StrConstText(content))
            => parsed = StrConstParsed(content)

(***************************************************************************)
(* Assembler header.                                                       *)
(***************************************************************************)
\* C29: for every source text that parses, assemble returns a tree whose
\* first instruction is Version with the host's major, minor and patch,
\* followed by the lowering of each top-level list of the source in order;
\* the result passes the loader's version gate
C29_AssemblerHeader ==
    aphase = "assembled" =>
        LET p == parse(parser_source)
            lowered == from_sexprs(p.sexprs)
        IN  /\ (p.status = "Ok" /\ lowered.status = "Ok") =>
                  /\ assembled.status = "Ok"
                  /\ assembled.code = <<HostVersion>> \o lowered.code
                  /\ VersionMatches(assembled.code[1])
                  /\ load_modules(assembled.code) = LoadLoop(assembled.code, 2, <<>>, <<>>)
            /\ assembled.status = "Ok" => (p.status = "Ok" /\ lowered.status = "Ok")

\* two modules have been assembled behind the header
C29_Witness ==
    /\ aphase = "assembled" /\ parser_source = T_two
    /\ assembled.status = "Ok"
    /\ Len(assembled.code) = 3
    /\ assembled.code[1] = HostVersion
    /\ assembled.code[3] = Module(S_k, <<>>)

(***************************************************************************)
(* Opcode table and compound wire layout.                                  *)
(***************************************************************************)
\* C25: every opcode byte of the table is accepted by the decoder and
\* mapped to its own instruction (0xF9 Continue, 0xFA Break, 0xFD Then),
\* from_u8(op.to_u8()) is Some(op) for every opcode, and a byte assigned to
\* no opcode is rejected
C25_OpcodeTable ==
    (cphase = "decoded" /\ Len(tree) = 1 /\ tree[1].op \in PlainOps) =>
        /\ bytes = <<to_u8(tree[1].op)>>
        /\ from_u8(bytes[1]) = tree[1].op
        /\ decoded = Ok(tree)

\* the index in bytes just before the encoding of tree[i]
OffsetOf(i) == Len(code_to_bytes(SubSeq(tree, 1, i - 1)))
\* the top-level Fn, Module and LoadModule instructions of the tree
NamedAt == {i \in 1..Len(tree) : tree[i].op \in NamedBodyOps}
\* the 4 bytes at offset o hold n, most significant byte first
U32At(o, n) ==
    /\ o + 4 <= Len(bytes)
    /\ bytes[o + 1] * 16777216 + bytes[o + 2] * 65536 + bytes[o + 3] * 256
           + bytes[o + 4] = n
\* the bytes at offset o are bs
BytesAt(o, bs) == o + Len(bs) <= Len(bytes) /\ SubSeq(bytes, o + 1, o + Len(bs)) = bs
\* what is left of the instruction's bytes without the opcode, the two
\* length fields and the name
BodyLength(i) == Len(to_bytes(tree[i])) - 9 - Len(tree[i].name)

\* C26 as stated: Fn, Module and LoadModule serialize as the opcode byte,
\* the name string (u32 length + bytes), the u32 byte-length of the body and
\* the body bytes, in that order; the length counts the body and not the name
C26_NameThenLength ==
    cphase = "encoded" =>
        \A i \in NamedAt :
            LET o == OffsetOf(i)
                name == tree[i].name
                body == code_to_bytes(tree[i].code)
            IN  /\ bytes[o + 1] = to_u8(tree[i].op)
                /\ U32At(o + 1, Len(name))
                /\ BytesAt(o + 5, name)
                /\ U32At(o + 5 + Len(name), Len(body))
                /\ BytesAt(o + 9 + Len(name), body)

\* C26 amended: the opcode byte, the u32 byte-length of the body, the name
\* string (u32 length + bytes) and the body bytes, in that order; the length
\* counts exactly the encoded body bytes and not the name
C26_LengthThenName ==
    cphase = "encoded" =>
        \A i \in NamedAt :
            LET o == OffsetOf(i)
                name == tree[i].name
                body == code_to_bytes(tree[i].code)
            IN  /\ bytes[o + 1] = to_u8(tree[i].op)
                /\ U32At(o + 1, BodyLength(i))
                /\ U32At(o + 5, Len(name))
                /\ BytesAt(o + 9, name)
                /\ BytesAt(o + 9 + Len(name), body)
                /\ Len(body) = BodyLength(i)
                /\ OffsetOf(i + 1) = o + 9 + Len(name) + Len(body)

\* a module behind the header has been encoded: its length field holds the
\* bytes of its two functions and its name is behind it
C26_Witness ==
    /\ cphase = "encoded"
    /\ Len(tree) = 2 /\ tree[2].op = "Module" /\ tree[2].name = S_m
    /\ Len(tree[2].code) = 2
    /\ bytes[5] = to_u8("Module")
    /\ U32At(5, Len(bytes) - 14)
    /\ BytesAt(9, <<0, 0, 0, 1>> \o S_m)

(***************************************************************************)
(* Decode errors.                                                          *)
(***************************************************************************)
\* C24: from_bytecode returns Ok(code) or Err for every byte sequence: a
\* stream truncated inside an operand or a framed body, an unassigned
\* opcode byte, an Else or Alias tag that does not directly follow its
\* parent and a string that is not valid UTF-8 each yield Err, also inside
\* a nested body, and never abort the caller
C24_DecodeErrorsReturned ==
    cphase = "streamDecoded" => decoded.status \in {"Ok", "Err"}

(***************************************************************************)
(* Integer wire format.                                                    *)
(***************************************************************************)
\* the value of four bytes as a base-256 numeral, first byte first
Numeral(bs) == ((bs[1] * 256 + bs[2]) * 256 + bs[3]) * 256 + bs[4]
IsBytes(bs) == \A i \in 1..Len(bs) : bs[i] \in 0..255
\* a value read with the reader left behind the last byte
ReadAll(v) == [ok |-> TRUE, v |-> v, pos |-> Len(bytes) + 1, panic |-> FALSE]

\* C30: write_u32 and write_i32 emit the 4 bytes most significant first and
\* read_u32 / read_i32 on those bytes return the value written; the bytes
\* 89 AB CD EF are the value 0x89ABCDEF; a string is written as the u32 byte
\* length followed by exactly that many bytes and reads back unchanged
C30_IntegerWireFormat ==
    /\ cphase \in {"written", "read"} =>
          /\ IsBytes(bytes)
          /\ written.kind = "u32" => Len(bytes) = 4 /\ Numeral(bytes) = written.n
          /\ (written.kind = "i32" /\ written.n >= 0) =>
                 Len(bytes) = 4 /\ Numeral(bytes) = written.n
          /\ (written.kind = "i32" /\ written.n < 0) =>
                 /\ Len(bytes) = 4 /\ bytes[1] >= 128
                 /\ Numeral([i \in 1..4 |-> 255 - bytes[i]]) = -(written.n + 1)
          /\ written.kind = "string" =>
                 /\ Len(bytes) = 4 + Len(written.s)
                 /\ Numeral(SubSeq(bytes, 1, 4)) = Len(written.s)
                 /\ SubSeq(bytes, 5, Len(bytes)) = written.s
          /\ written = WireI32(-1985229329) => bytes = <<137, 171, 205, 239>>
          /\ written = WireU32(162254319) => bytes = <<9, 171, 205, 239>>
          /\ written = WireString(S_test) => bytes = <<0, 0, 0, 4>> \o S_test
    /\ cphase = "read" =>
          readback = ReadAll(IF written.kind = "string" THEN written.s ELSE written.n)

\* the i32 with the bytes 89 AB CD EF has been written and read back
C30_Witness ==
    /\ cphase = "read"
    /\ written = WireI32(-1985229329)
    /\ bytes = <<137, 171, 205, 239>>
    /\ readback.ok /\ readback.v = -1985229329 /\ readback.pos = 5

(***************************************************************************)
(* Loops: break, nesting and continue.                                     *)
(***************************************************************************)
\* the Loop handler is about to leave its loop because call_break is set
LoopEndsByBreak == Exiting /\ Top.kind = "loop" /\ call_break

\* C31: whenever a Loop terminates because its body signalled break,
\* call_break is false when execution continues with the instruction after
\* the Loop
C31_BreakCleared == [][LoopEndsByBreak => ~call_break']_vars


\* C32: a Break ends only the innermost enclosing Loop: a loop whose body
\* ran an inner loop that ended by break goes on to further iterations until
\* its own body signals break or return, so a loop that ends by break has
\* just executed a Break of its own body
C32_InnermostOnly ==
    (LoopEndsByBreak /\ ~call_return) => Last(trace).ins.op = "Break"

\* the Loop handler has got its body's execute back
LoopBodyEnded == Exiting /\ Top.kind = "loop"
\* the loop starts its next iteration from the first body instruction
NextIteration == frames' = [frames EXCEPT ![Len(frames)].pc = 1]

\* C33: a Continue in a loop body, directly or inside Then arms, skips every
\* remaining instruction of the iteration and the loop starts its next
\* iteration; it does not end the loop or the function, and a body that ends
\* normally also starts the next iteration
C33_ContinueNextIteration ==
    [][/\ call_continue => trace' = trace
       /\ (LoopBodyEnded /\ call_continue) => NextIteration
       /\ (LoopBodyEnded /\ Last(trace).ins.op \notin {"Break", "Return", "Continue"}
              /\ Last(trace).depth = Len(local_vars)) => NextIteration]_vars


(***************************************************************************)
(* The decoder's one-byte lookahead behind a Then block and behind the     *)
(* name of a GetFunction.                                                  *)
(***************************************************************************)
\* an instruction behind which the decoder looks at the next byte
Lookahead(ins) ==
    IF ins.op = "Then" THEN ins.code2 = <<>> ELSE ins.op = "GetFunction"
\* the instruction decodes to itself when nothing follows it
DecodesAlone(ins) == from_bytecode(code_to_bytes(<<ins>>)) = Ok(<<ins>>)

\* C34 (decoder lookahead): after a Then without an Else, or a GetFunction
\* with or without an alias, decoding continues with the first byte behind
\* that instruction, so the instruction that follows it is decoded too; a
\* LoadModule body of several fn.get entries, aliased or not, decodes to all
\* of its entries.
C34_LookaheadContinues ==
    cphase = "decoded" =>
        /\ (Len(tree) = 2 /\ Lookahead(tree[1]) /\ DecodesAlone(tree[1]))
               => decoded = Ok(tree)
        /\ (Len(tree) = 1 /\ tree[1].op = "LoadModule") => decoded = Ok(tree)


(***************************************************************************)
(* Locals frames and object fields: sizes and bounds.                      *)
(***************************************************************************)
ReserveStep == CanStep /\ Cur.op = "ReserveLocal"

\* C35 (local.reserve): with a current frame, local.reserve N makes the
\* length of that frame exactly N: the slots below N that existed keep
\* their values, the new slots hold Null, the slots from N on are gone; the
\* operand stack and the other frames are unchanged.  With no current frame
\* the instruction is fatal.
C35_ReserveLocal ==
    [][ReserveStep =>
          IF local_vars = <<>>
          THEN phase' = "panic" /\ local_vars' = local_vars /\ stack' = stack
          ELSE /\ phase' = "running"
               /\ Len(local_vars') = Len(local_vars)
               /\ Len(Last(local_vars')) = Cur.n
               /\ \A i \in 1..Cur.n :
                    Last(local_vars')[i] =
                        IF i <= Len(Last(local_vars)) THEN Last(local_vars)[i] ELSE Null
               /\ Front(local_vars') = Front(local_vars)
               /\ stack' = stack]_vars

\* the host's execute has aborted at a local.reserve without a frame
ReserveWithoutFrame ==
    /\ phase = "panic"
    /\ trace # <<>>
    /\ Last(trace).ins = ReserveLocal(1)
    /\ Last(trace).locals = <<>>
\* count(1, 2) has cut its frame of two arguments down to one slot
C35_Witness ==
    /\ phase = "running"
    /\ trace # <<>>
    /\ Last(trace).ins = ReserveLocal(1)
    /\ Last(trace).locals = <<(<<Integer(1), Integer(2)>>)>>
    /\ local_vars = <<(<<Integer(1)>>)>>


LocalStep == CanStep /\ Cur.op \in {"GetLocal", "SetLocal"}
FieldStep == CanStep /\ Cur.op \in {"GetField", "SetField"}
\* the position on the stack of the object a field instruction addresses:
\* the top for GetField, the slot below the value for SetField
Addressed == IF Cur.op = "GetField" THEN Len(stack) ELSE Len(stack) - 1
NoFrameOrOutOfRange ==
    IF local_vars = <<>> THEN TRUE ELSE Cur.n >= Len(Last(local_vars))
NoValuesOrOutOfRange ==
    IF stack[Addressed].kind # "Object" THEN TRUE
    ELSE IF heap[stack[Addressed].n].kind # "Values" THEN TRUE
    ELSE Cur.n >= Len(heap[stack[Addressed].n].fields)
SameFrameLengths ==
    /\ Len(local_vars') = Len(local_vars)
    /\ \A k \in 1..Len(local_vars) : Len(local_vars'[k]) = Len(local_vars[k])
SameFieldCounts ==
    /\ Len(heap') >= Len(heap)
    /\ \A h \in 1..Len(heap) :
         heap'[h].kind = heap[h].kind /\ Len(heap'[h].fields) = Len(heap[h].fields)

\* C36 (locals and field bounds): local.get I and local.set I abort when
\* there is no current frame or I is not below the length of the current
\* frame; field.get I and field.set I abort when the stack slot they address
\* is not a Values object or I is not below its field count; none of the
\* four changes the length of a frame, and no step changes the field count
\* of an object, which is the N of the alloc that created it.
C36_Bounds ==
    [][/\ (LocalStep /\ NoFrameOrOutOfRange) => phase' = "panic"
       /\ (FieldStep /\ Addressed >= 1 /\ NoValuesOrOutOfRange) => phase' = "panic"
       /\ (LocalStep \/ FieldStep) => SameFrameLengths
       /\ SameFieldCounts
       /\ (CanStep /\ Cur.op = "Allocate") =>
              /\ Len(heap') = Len(heap) + 1
              /\ heap'[Len(heap')] = Values(Nulls(Cur.n))]_vars


\* oob(true) has aborted at its field.set 1 on an object of one field, which
\* still has one field
C36_Witness ==
    /\ phase = "panic"
    /\ trace # <<>>
    /\ Last(trace).ins = SetField(1)
    /\ Len(Last(trace).stack) = 2
    /\ Last(trace).stack[1].kind = "Object"
    /\ heap[Last(trace).stack[1].n] = Values(<<Null>>)


(***************************************************************************)
(* Instructions that wait.                                                 *)
(***************************************************************************)
\* C37 (no opcode blocks): an instruction other than Loop and Call either
\* completes or aborts, it never waits; Dump in particular completes, also
\* when the stack or a local holds an object with a field that is a handle
\* to that same object.
C37_NoOpcodeBlocks ==
    [][(CanStep /\ Cur.op \notin {"Loop", "Call"}) =>
          /\ phase' \in {"running", "panic"}
          /\ Cur.op = "Dump" => phase' = "running"]_vars


(***************************************************************************)
(* has_function and call.                                                  *)
(***************************************************************************)
\* C38 (has_function agrees with call): has_function(m, f) holds exactly
\* when m names a static module that has f, or m names no static module but
\* a dynamic module that has f; and a call of m.f, by the host or by a Call
\* instruction that finds its arguments, resolves a function exactly when
\* has_function(m, f) holds and aborts otherwise.
C38_HasFunctionAgrees ==
    /\ [](\A m \in ModuleNames, f \in FunctionNames :
            has_function(m, f) <=>
                \/ IsStatic(m) /\ f \in DOMAIN modules[m].functions
                \/ IsDynamic(m) /\ f \in DOMAIN dymodules[m].fns)
    /\ [][HostStep => (has_function(entry'.module, entry'.name) <=> phase' # "panic")]_vars
    /\ [][CallStep => (has_function(Cur.name, Cur.name2) <=> phase' # "panic")]_vars

\* lib names a static and a dynamic module, the query for lib.len, which
\* only the dynamic module has, is false, and the host's call of lib.len
\* has aborted
C38_Witness ==
    /\ phase = "panic"
    /\ trace = <<>>
    /\ entry.module = S_lib /\ entry.name = S_len
    /\ S_lib \in DOMAIN modules /\ S_lib \in DOMAIN dymodules
    /\ S_len \in DOMAIN dymodules[S_lib].fns
    /\ ~has_function(S_lib, S_len)


(***************************************************************************)
(* The orientation of Div.                                                 *)
(***************************************************************************)
DivReady == BinaryReady /\ Cur.op = "Div"
\* the quotient of top by second, rounded toward zero
TopBySecond ==
    LET top == Last(stack).n
        second == stack[Len(stack) - 1].n
        q == (IF top < 0 THEN -top ELSE top) \div (IF second < 0 THEN -second ELSE second)
    IN  IF (top < 0) = (second < 0) THEN q ELSE -q

\* C39 (Div orientation): Div on two Integers or two Floats, a on top and b
\* below it, pushes a / b, the top divided by the second, where Sub pushes
\* the second minus the top; 10, then 2, then Div leaves Integer(0); and an
\* Integer Div aborts for a zero divisor exactly when the second value from
\* the top is 0.
C39_DivOrientation ==
    [][/\ (DivReady /\ SameKind(Last(stack), stack[Len(stack) - 1], "Integer")) =>
              IF stack[Len(stack) - 1].n = 0
              THEN phase' = "panic"
              ELSE /\ phase' = "running"
                   /\ Len(stack') = Len(stack) - 1
                   /\ Last(stack') = Integer(TopBySecond)
       /\ (DivReady /\ SameKind(Last(stack), stack[Len(stack) - 1], "Float")) =>
              /\ phase' = "running"
              /\ Last(stack') = Float(TopBySecond)
       /\ (DivReady /\ Last(stack) = Integer(2) /\ stack[Len(stack) - 1] = Integer(10)) =>
              Last(stack') = Integer(0)
       /\ (BinaryReady /\ Cur.op = "Sub"
               /\ SameKind(Last(stack), stack[Len(stack) - 1], "Integer")) =>
              Last(stack') = Integer(stack[Len(stack) - 1].n - Last(stack).n)]_vars

\* div10 has divided: 10 and 2 were on the stack, Integer(0) is left
C39_Witness ==
    /\ phase \in {"running", "done"}
    /\ trace # <<>>
    /\ Last(trace).ins = Div
    /\ Last(trace).stack = <<Integer(10), Integer(2)>>
    /\ stack = <<Integer(0)>>


(***************************************************************************)
(* The bounds of the byte reader.                                          *)
(***************************************************************************)
\* ByteReader.position, and the bytes behind it
Position == readback.pos - 1
Remaining == Len(bytes) - Position
Reading == cphase = "reading" /\ cphase' = "reading"
\* the result is None and the position is where it was
NoneInPlace == ~readback'.ok /\ readback'.pos = readback.pos
\* the result is the next n bytes and the position is n further
NextBytes(n) ==
    /\ readback'.ok
    /\ readback'.v = [i \in 1..n |-> bytes[Position + i]]
    /\ readback'.pos = readback.pos + n
\* the length that the four bytes at the position declare
DeclaredLength ==
    bytes[Position + 1] * 16777216 + bytes[Position + 2] * 65536
        + bytes[Position + 3] * 256 + bytes[Position + 4]

\* C40 (ByteReader bounds): the position of a reader never exceeds the
\* length of its source; read_byte and read_bytes(n) return None and leave
\* the position where it is when fewer than 1, or n, bytes remain, and
\* otherwise return exactly the next byte, or n bytes, and advance by 1, or
\* n; read_u32 returns None with fewer than 4 bytes left; read_string
\* returns None when the length it reads exceeds the bytes that remain
\* behind the length.
C40_ReaderBounds ==
    /\ [](cphase = "reading" => (Position >= 0 /\ Position <= Len(bytes)))
    /\ [][(Reading /\ request'.op = "byte") =>
              IF Remaining < 1 THEN NoneInPlace
              ELSE /\ readback'.ok
                   /\ readback'.v = bytes[Position + 1]
                   /\ readback'.pos = readback.pos + 1]_vars
    /\ [][(Reading /\ request'.op = "bytes") =>
              IF Remaining < request'.n THEN NoneInPlace
              ELSE NextBytes(request'.n)]_vars
    /\ [][(Reading /\ request'.op = "u32" /\ Remaining < 4) => ~readback'.ok]_vars
    /\ [][(Reading /\ request'.op = "string") =>
              IF Remaining < 4 THEN ~readback'.ok
              ELSE DeclaredLength > Remaining - 4 => ~readback'.ok]_vars

\* the reader's test: 1 and 2 were read from [1, 2, 3, 4], read_bytes(2)
\* has returned [3, 4] and the reader is at the end
C40_Witness ==
    /\ cphase = "reading"
    /\ bytes = <<1, 2, 3, 4>>
    /\ request = [op |-> "bytes", n |-> 2]
    /\ readback = DidRead(<<3, 4>>, 5)
\* read_bytes(5) on a source of four bytes has returned None
ReadOutOfBounds ==
    /\ cphase = "reading"
    /\ bytes = <<1, 2, 3, 4>>
    /\ request = [op |-> "bytes", n |-> 5]
    /\ readback = NoRead(1)
\* read_string has returned None for a declared length of 5 before 4 bytes
StringOutOfBounds ==
    /\ cphase = "reading"
    /\ bytes = <<0, 0, 0, 5>> \o S_test
    /\ request.op = "string"
    /\ ~readback.ok

====
